---- MODULE Spec2Model ----
(***************************************************************************)
(* Variable-domain parser / specializer engine of netzob and its fuzzing   *)
(* overlay.  Bits are sequences over {0,1}; raw bytes are sequences over   *)
(* 0..255.  Generators of the Python code are modelled as the sequence of  *)
(* values they yield, in yield order.                                      *)
(***************************************************************************)
EXTENDS Integers, Sequences, FiniteSets, TLC

(***************************************************************************)
(* Bit buffer and raw bytes                                                *)
(***************************************************************************)

\* bits per raw byte (len(data) * 8 in Integer.encode)
ByteBits == 8

\* the absent value (Python None) of a bit-valued slot
NoData == <<2>>

RECURSIVE Pow2(_)
Pow2(n) == IF n = 0 THEN 1 ELSE 2 * Pow2(n - 1)

RECURSIVE BitsToNat(_)
BitsToNat(bits) ==
    IF bits = <<>> THEN 0
    ELSE 2 * BitsToNat(SubSeq(bits, 1, Len(bits) - 1)) + bits[Len(bits)]

RECURSIVE NatToBits(_, _)
NatToBits(n, w) ==
    IF w = 0 THEN <<>>
    ELSE Append(NatToBits(n \div 2, w - 1), n % 2)

Zeros(n) == [i \in 1..n |-> 0]

\* bitarray.tobytes(): the bits, zero-padded on the right to whole bytes
BitArray_decode(bits) ==
    LET rest   == Len(bits) % ByteBits
        padded == IF rest = 0 THEN bits ELSE bits \o Zeros(ByteBits - rest)
    IN  [i \in 1..(Len(padded) \div ByteBits) |->
            BitsToNat(SubSeq(padded, (i - 1) * ByteBits + 1, i * ByteBits))]

\* bitarray.frombytes(): eight bits per byte, most significant first
RECURSIVE BitArray_encode(_)
BitArray_encode(bytes) ==
    IF bytes = <<>> THEN <<>>
    ELSE NatToBits(bytes[1], ByteBits) \o BitArray_encode(Tail(bytes))

(***************************************************************************)
(* Integer type                                                            *)
(***************************************************************************)

getMinStorageValue(unitSize, sign) ==
    IF sign = "unsigned" THEN 0 ELSE 0 - (Pow2(unitSize) \div 2)

getMaxStorageValue(unitSize, sign) ==
    IF sign = "unsigned" THEN Pow2(unitSize) - 1 ELSE (Pow2(unitSize) \div 2) - 1

\* the outcome of struct.pack on a value outside the storage range
StructError == <<-1>>

\* one word (unitSize bits) as raw bytes in the order of the endianness
WordBytes(n, unitSize, endianness) ==
    LET be == BitArray_decode(NatToBits(n, unitSize))
    IN  IF endianness = "big" THEN be
        ELSE [i \in 1..Len(be) |-> be[Len(be) + 1 - i]]

\* Integer.decode: struct.pack(format, int(data))
Integer_decode(data, unitSize, endianness, sign) ==
    IF data < getMinStorageValue(unitSize, sign)
       \/ data > getMaxStorageValue(unitSize, sign)
    THEN StructError
    ELSE WordBytes(IF data < 0 THEN data + Pow2(unitSize) ELSE data,
                   unitSize, endianness)

\* one word read without its sign
UnpackWord_unsigned(wordData, unitSize, endianness, sign) ==
    BitsToNat(BitArray_encode(
        IF endianness = "big" THEN wordData
        ELSE [i \in 1..Len(wordData) |-> wordData[Len(wordData) + 1 - i]]))

\* struct.unpack of one word
UnpackWord(wordData, unitSize, endianness, sign) ==
    LET be == IF endianness = "big" THEN wordData
              ELSE [i \in 1..Len(wordData) |-> wordData[Len(wordData) + 1 - i]]
        u  == BitsToNat(BitArray_encode(be))
    IN  IF sign = "signed" /\ u >= Pow2(unitSize) \div 2
        THEN u - Pow2(unitSize) ELSE u

RECURSIVE EncodeWords(_, _, _, _, _, _, _)
EncodeWords(data, iWord, nbWords, pad, unitSize, endianness, sign) ==
    IF iWord >= nbWords THEN 0
    ELSE LET wb       == unitSize \div ByteBits
             startPos == iWord * wb
             endPos   == IF startPos + wb > Len(data) THEN Len(data)
                         ELSE startPos + wb
             raw      == SubSeq(data, startPos + 1, endPos)
             wordData == IF pad > 0 /\ iWord = nbWords - 1
                         THEN IF endianness = "big"
                              THEN [i \in 1..pad |-> 0] \o raw
                              ELSE raw \o [i \in 1..pad |-> 0]
                         ELSE raw
         IN  UnpackWord(wordData, unitSize, endianness, sign)
                 * Pow2(unitSize * iWord)
             + EncodeWords(data, iWord + 1, nbWords, pad,
                           unitSize, endianness, sign)

\* Integer.encode: raw bytes to an integer, word by word
Integer_encode(data, unitSize, endianness, sign) ==
    LET rest    == (Len(data) * ByteBits) % unitSize
        nbWords == ((Len(data) * ByteBits) \div unitSize)
                   + (IF rest # 0 THEN 1 ELSE 0)
        pad     == IF rest # 0 THEN (unitSize - rest) \div ByteBits ELSE 0
    IN  EncodeWords(data, 0, nbWords, pad, unitSize, endianness, sign)

\* TypeConverter.convert(value, Integer, BitArray)
IntegerToBits(val, unitSize, endianness, sign) ==
    LET raw == Integer_decode(val, unitSize, endianness, sign)
    IN  IF raw = StructError THEN StructError ELSE BitArray_encode(raw)

\* TypeConverter.convert(bits, BitArray, Integer)
BitsToInteger(bits, unitSize, endianness, sign) ==
    Integer_encode(BitArray_decode(bits), unitSize, endianness, sign)

\* Integer(value=v, ...): a constant; its size is (None, None)
IntegerValue(v, unitSize, sign) ==
    [typeName |-> "Integer", hasValue |-> TRUE, intValue |-> v,
     size |-> <<>>, unitSize |-> unitSize, endianness |-> "big",
     sign |-> sign]

\* Integer(interval=(lo, hi), ...): no value; its size is the interval
IntegerInterval(lo, hi, unitSize, sign) ==
    [typeName |-> "Integer", hasValue |-> FALSE, intValue |-> 0,
     size |-> <<lo, hi>>, unitSize |-> unitSize, endianness |-> "big",
     sign |-> sign]

\* the value of an Integer: the bits its constructor converts the value to
Integer_value(self) ==
    IF self.hasValue
    THEN IntegerToBits(self.intValue, self.unitSize, self.endianness,
                       self.sign)
    ELSE NoData

\* Integer.canParse on a bitarray
Integer_canParse(self, data) ==
    IF Len(data) = 0 THEN FALSE
    ELSE IF self.hasValue THEN Integer_value(self) = data
    ELSE LET int_data == BitsToInteger(data, self.unitSize,
                                       self.endianness, self.sign)
         IN  self.size[1] <= int_data /\ int_data <= self.size[2]

\* Integer.generate: the set of values random.randint may produce
Integer_generate(self) ==
    IF self.hasValue THEN {Integer_value(self)}
    ELSE {IntegerToBits(v, self.unitSize, self.endianness, self.sign) :
             v \in self.size[1]..self.size[2]}

(***************************************************************************)
(* BitArray type                                                           *)
(***************************************************************************)

BitArrayType(minBits, maxBits) ==
    [typeName |-> "BitArray", hasValue |-> FALSE, value |-> NoData,
     size |-> <<minBits, maxBits>>]

\* BitArray(value): a constant of these bits
BitArrayValue(bits) ==
    [typeName |-> "BitArray", hasValue |-> TRUE, value |-> bits,
     size |-> <<Len(bits), Len(bits)>>]

\* BitArray.canParse
BitArray_canParse(self, data) ==
    IF Len(data) = 0 THEN FALSE
    ELSE IF self.hasValue /\ self.value = data THEN TRUE
    ELSE self.size[1] <= Len(data) /\ Len(data) <= self.size[2]

RECURSIVE BitStrings(_)
BitStrings(n) ==
    IF n = 0 THEN {<<>>}
    ELSE {Append(b, x) : b \in BitStrings(n - 1), x \in {0, 1}}

\* BitArray.generate: a random size in the bounds, then random bits
BitArray_generate(self) ==
    IF self.hasValue THEN {self.value}
    ELSE UNION {BitStrings(n) : n \in self.size[1]..self.size[2]}

(***************************************************************************)
(* Variable tree: the variables used by the symbols of the model           *)
(***************************************************************************)

\* a Data leaf wrapping a type
Data(dataType, scope) ==
    [kind |-> "Data", scope |-> scope, dataType |-> dataType,
     children |-> <<>>, callback |-> 0, hasCallback |-> FALSE,
     targets |-> <<>>]

\* an Alt node; callback is the index the callback function returns
Alt(children, hasCallback, callback) ==
    [kind |-> "Alt", scope |-> "NONE", dataType |-> BitArrayType(0, 0),
     children |-> children, callback |-> callback,
     hasCallback |-> hasCallback, targets |-> <<>>]

\* a Size or Value relation leaf over its targets
Relation(kind, targets, dataType) ==
    [kind |-> kind, scope |-> "NONE", dataType |-> dataType,
     children |-> <<>>, callback |-> 0, hasCallback |-> FALSE,
     targets |-> targets]

VarIds ==
    {"i12", "m12", "s12", "k1", "k0", "u1", "cA", "cB", "cC", "cAA", "b3",
     "altABC", "altOv", "altCb", "altM", "altI", "b13", "altMI", "altN", "kE", "szABC", "valABC", "szOv"}

Var ==
    [v \in VarIds |->
       CASE v = "i12"    -> Data(IntegerInterval(1, 2, 8, "signed"), "NONE")
         [] v = "m12"    -> Data(IntegerInterval(1, 2, 8, "unsigned"), "MESSAGE")
         [] v = "s12"    -> Data(IntegerInterval(1, 2, 8, "unsigned"), "SESSION")
         [] v = "k1"     -> Data(IntegerValue(1, 8, "unsigned"), "CONSTANT")
         [] v = "k0"     -> Data(IntegerInterval(1, 2, 8, "unsigned"), "CONSTANT")
         [] v = "u1"     -> Data(IntegerInterval(1, 2, 8, "unsigned"), "None")
         [] v = "cA"     -> Data(IntegerValue(65, 8, "unsigned"), "NONE")
         [] v = "cB"     -> Data(IntegerValue(66, 8, "unsigned"), "NONE")
         [] v = "cC"     -> Data(IntegerValue(67, 8, "unsigned"), "NONE")
         [] v = "cAA"    -> Data(IntegerValue(16705, 16, "unsigned"), "NONE")
         [] v = "b3"     -> Data(BitArrayType(3, 3), "NONE")
         [] v = "b13"    -> Data(BitArrayType(1, 3), "NONE")
         [] v = "kE"     -> Data(BitArrayValue(<<>>), "CONSTANT")
         [] v = "altABC" -> Alt(<<"cA", "cB", "cC">>, FALSE, 0)
         [] v = "altOv"  -> Alt(<<"cAA", "cA">>, FALSE, 0)
         [] v = "altCb"  -> Alt(<<"i12", "cA", "k1">>, TRUE, -1)
         [] v = "altM"   -> Alt(<<"m12", "cA">>, FALSE, 0)
         [] v = "altI"   -> Alt(<<"cB", "i12", "k1">>, FALSE, 0)
         [] v = "altMI"  -> Alt(<<"m12", "i12">>, FALSE, 0)
         [] v = "altN"   -> Alt(<<"altABC", "b3">>, FALSE, 0)
         [] v = "szABC"  -> Relation("Size", <<"altABC">>,
                                     IntegerInterval(0, 255, 8, "unsigned"))
         [] v = "szOv"   -> Relation("Size", <<"altOv">>,
                                     IntegerInterval(0, 255, 8, "unsigned"))
         [] v = "valABC" -> Relation("Value", <<"altABC">>,
                                     BitArrayType(0, 0))]

\* Symbol(fields=[Field(domain) ...]): the domain variable of each field
SymbolIds ==
    {"S_i", "S_ii", "S_mm", "S_mAltM", "S_b3", "S_alt", "S_ov", "S_cb",
     "S_szR", "S_szL", "S_valR", "S_valL", "S_szOvL", "S_szOvR", "S_s",
     "S_k1", "S_k0", "S_u", "S_sk", "S_altI", "S_altMI",
     "S_altN", "S_e"}

Symbols ==
    [s \in SymbolIds |->
       CASE s = "S_i"     -> <<"i12">>
         [] s = "S_ii"    -> <<"i12", "i12">>
         [] s = "S_mm"    -> <<"m12", "m12">>
         [] s = "S_mAltM" -> <<"m12", "altM">>
         [] s = "S_b3"    -> <<"b3">>
         [] s = "S_alt"   -> <<"altABC">>
         [] s = "S_ov"    -> <<"altOv", "cA">>
         [] s = "S_cb"    -> <<"altCb">>
         [] s = "S_szR"   -> <<"szABC", "altABC">>
         [] s = "S_szL"   -> <<"altABC", "szABC">>
         [] s = "S_valR"  -> <<"valABC", "altABC">>
         [] s = "S_valL"  -> <<"altABC", "valABC">>
         [] s = "S_szOvL" -> <<"altOv", "szOv">>
         [] s = "S_szOvR" -> <<"szOv", "altOv">>
         [] s = "S_s"     -> <<"s12">>
         [] s = "S_k1"    -> <<"k1", "i12">>
         [] s = "S_k0"    -> <<"k0">>
         [] s = "S_u"     -> <<"u1">>
         [] s = "S_sk"    -> <<"s12", "k1">>
         [] s = "S_altI"  -> <<"altI">>
         [] s = "S_altMI" -> <<"altMI">>
         [] s = "S_altN"  -> <<"altN">>
         [] s = "S_e"     -> <<"kE">>]

(***************************************************************************)
(* Paths: data assigned to variables, memory, pending relations            *)
(***************************************************************************)

EmptyMap == [v \in VarIds |-> NoData]

\* GenericPath: data is the data assigned to each variable (the data to
\* parse before the variable is parsed, its result afterwards), results
\* the variables that received a result, pending the relations waiting
\* for their targets, slices the per-field results of the message, fault
\* whether reading the path raises ParsingException, choice the position
\* of the child each Alt took on this path (0: none)
NewPath(memory) ==
    [data |-> EmptyMap, memory |-> memory, results |-> {}, pending |-> {},
     ok |-> TRUE, slices |-> <<>>, fault |-> FALSE,
     choice |-> [v \in VarIds |-> 0]]

assignData(p, data, v) == [p EXCEPT !.data[v] = data]

RECURSIVE ConcatAll(_)
ConcatAll(seqs) ==
    IF seqs = <<>> THEN <<>> ELSE Head(seqs) \o ConcatAll(Tail(seqs))

RECURSIVE SeqToSet(_)
SeqToSet(q) == IF q = <<>> THEN {} ELSE {Head(q)} \cup SeqToSet(Tail(q))

Prefix(bits, n) == SubSeq(bits, 1, n)

Suffix(bits, n) == SubSeq(bits, n + 1, Len(bits))

dataTypeCanParse(dataType, data) ==
    IF dataType.typeName = "Integer" THEN Integer_canParse(dataType, data)
    ELSE BitArray_canParse(dataType, data)

dataTypeGenerate(dataType) ==
    IF dataType.typeName = "Integer" THEN Integer_generate(dataType)
    ELSE BitArray_generate(dataType)

\* the bit lengths a value of the type may take
TypeMinBits(dataType) ==
    IF dataType.typeName = "Integer" THEN dataType.unitSize
    ELSE dataType.size[1]

TypeMaxBits(dataType) ==
    IF dataType.typeName = "Integer" THEN dataType.unitSize
    ELSE dataType.size[2]

(***************************************************************************)
(* Relations                                                               *)
(***************************************************************************)

\* the bits assigned to the targets of a relation, concatenated
TargetBits(r, p) ==
    ConcatAll([i \in 1..Len(Var[r].targets) |-> p.data[Var[r].targets[i]]])

\* the length of the targets taken in bits, not in bytes
Size_compute_inBits(r, p) ==
    IntegerToBits(Len(TargetBits(r, p)),
                  Var[r].dataType.unitSize, Var[r].dataType.endianness,
                  Var[r].dataType.sign)

\* Size: len_bits(concat(targets)) * factor + offset with factor 1/8 and
\* offset 0, encoded in the data type of the relation
Size_compute(r, p) ==
    IntegerToBits(Len(TargetBits(r, p)) \div ByteBits,
                  Var[r].dataType.unitSize, Var[r].dataType.endianness,
                  Var[r].dataType.sign)

\* Value: the identity over the bits of the target
Value_compute(r, p) == TargetBits(r, p)

Relation_compute(r, p) ==
    IF Var[r].kind = "Size" THEN Size_compute(r, p) ELSE Value_compute(r, p)

TargetsBound(r, p) == SeqToSet(Var[r].targets) \subseteq p.results

\* the path once the callbacks of the relations in ready have run
triggerCallbacks(p1, ready) ==
    [p1 EXCEPT !.pending = @ \ ready,
               !.ok = @ /\ \A r \in ready :
                              p1.data[r] = Relation_compute(r, p1)]

\* addResult: record the result of a variable, then run the pending
\* callbacks whose targets are now all bound; a failing one fails the path
addResult(p, v, bits) ==
    triggerCallbacks([p EXCEPT !.data[v] = bits, !.results = @ \cup {v}],
                     {r \in p.pending : TargetsBound(r,
                         [p EXCEPT !.results = @ \cup {v}])})

(***************************************************************************)
(* Abstraction of a leaf                                                   *)
(***************************************************************************)

\* what a parse call gives: the paths it yields in yield order, the
\* exception it raises if any, and the operations the leaves selected
OpResult(raised, paths, trace) ==
    [raised |-> raised, paths |-> paths, trace |-> trace]

\* the value of a type in bits, NoData if it has none
dataTypeValue(dataType) ==
    IF dataType.typeName = "Integer" THEN Integer_value(dataType)
    ELSE dataType.value

isDefined(v, p) == p.memory[v] # NoData \/ Var[v].dataType.hasValue

RECURSIVE Descending(_, _)
Descending(hi, lo) ==
    IF hi < lo THEN <<>> ELSE <<hi>> \o Descending(hi - 1, lo)

RECURSIVE Ascending(_, _)
Ascending(lo, hi) ==
    IF hi < lo THEN <<>> ELSE <<lo>> \o Ascending(lo + 1, hi)

\* the lengths tried from the shortest to the longest
CandidateLengths_ascending(dataType, remaining, carnivorous) ==
    Ascending(TypeMinBits(dataType),
              IF TypeMaxBits(dataType) < remaining
              THEN TypeMaxBits(dataType) ELSE remaining)

\* the lengths a leaf tries on the data, longest first; a carnivorous
\* leaf may also take all the remaining data
CandidateLengths(dataType, remaining, carnivorous) ==
    LET hi   == IF TypeMaxBits(dataType) < remaining
                THEN TypeMaxBits(dataType) ELSE remaining
        base == Descending(hi, TypeMinBits(dataType))
    IN  IF carnivorous /\ remaining > hi /\ remaining >= TypeMinBits(dataType)
        THEN <<remaining>> \o base ELSE base

\* the prefixes of the data the type accepts, in the order they are tried
AcceptedSlices(v, p, carnivorous) ==
    LET ok(n) == dataTypeCanParse(Var[v].dataType, Prefix(p.data[v], n))
    IN  SelectSeq(CandidateLengths(Var[v].dataType, Len(p.data[v]),
                                   carnivorous), ok)

\* one path for each accepted length
domainCMP_yield(v, p, acc) ==
    OpResult("", [i \in 1..Len(acc) |->
                     addResult(p, v, Prefix(p.data[v], acc[i]))], <<>>)

Data_domainCMP(v, p, carnivorous) ==
    IF p.fault THEN OpResult("ParsingException", <<>>, <<>>)
    ELSE domainCMP_yield(v, p, AcceptedSlices(v, p, carnivorous))

\* one path for each accepted length, the slice memorized
learn_yield(v, p, acc) ==
    OpResult("", [i \in 1..Len(acc) |->
                     addResult([p EXCEPT !.memory[v] =
                                    Prefix(p.data[v], acc[i])],
                               v, Prefix(p.data[v], acc[i]))], <<>>)

Data_learn(v, p, carnivorous) ==
    IF p.fault THEN OpResult("ParsingException", <<>>, <<>>)
    ELSE learn_yield(v, p, AcceptedSlices(v, p, carnivorous))

\* the value a defined variable is compared with
ExpectedValue(v, p) ==
    IF p.memory[v] # NoData THEN p.memory[v]
    ELSE dataTypeValue(Var[v].dataType)

\* the path if the next bits are the expected ones
valueCMP_yield(v, p, expected) ==
    IF Len(p.data[v]) >= Len(expected)
       /\ Prefix(p.data[v], Len(expected)) = expected
    THEN OpResult("", <<addResult(p, v, expected)>>, <<>>)
    ELSE OpResult("", <<>>, <<>>)

Data_valueCMP(v, p, carnivorous) ==
    IF p.fault THEN OpResult("ParsingException", <<>>, <<>>)
    ELSE valueCMP_yield(v, p, ExpectedValue(v, p))

\* the operation AbstractVariableLeaf.parse selects for a scope
ParseOp_noSessionCompare(scope, defined) ==
    IF defined
    THEN CASE scope = "CONSTANT" -> "valueCMP"
           [] scope \in {"MESSAGE", "SESSION"} -> "learn"
           [] scope = "NONE" -> "domainCMP"
    ELSE CASE scope = "CONSTANT" -> "none"
           [] scope \in {"MESSAGE", "SESSION"} -> "learn"
           [] scope = "NONE" -> "domainCMP"

ParseOp_messageCompare(scope, defined) ==
    IF defined
    THEN CASE scope \in {"CONSTANT", "SESSION", "MESSAGE"} -> "valueCMP"
           [] scope = "NONE" -> "domainCMP"
    ELSE CASE scope = "CONSTANT" -> "none"
           [] scope \in {"MESSAGE", "SESSION"} -> "learn"
           [] scope = "NONE" -> "domainCMP"

ParseOp(scope, defined) ==
    IF defined
    THEN CASE scope \in {"CONSTANT", "SESSION"} -> "valueCMP"
           [] scope = "MESSAGE" -> "learn"
           [] scope = "NONE" -> "domainCMP"
    ELSE CASE scope = "CONSTANT" -> "none"
           [] scope \in {"MESSAGE", "SESSION"} -> "learn"
           [] scope = "NONE" -> "domainCMP"

\* the record of one leaf parse: the operation selected, whether it raised
\* ParsingException, the value memorized before, the slices accepted
ParseEvent(v, p, op, r) ==
    [var |-> v, scope |-> Var[v].scope, defined |-> isDefined(v, p),
     op |-> op, excepted |-> r.raised = "ParsingException",
     memBefore |-> p.memory[v],
     accepted |-> [i \in 1..Len(r.paths) |-> r.paths[i].data[v]],
     memAfter |-> [i \in 1..Len(r.paths) |-> r.paths[i].memory[v]]]

\* the operation selected, applied
parseOperation(op, v, p, carnivorous) ==
    CASE op = "valueCMP"  -> Data_valueCMP(v, p, carnivorous)
      [] op = "learn"     -> Data_learn(v, p, carnivorous)
      [] op = "domainCMP" -> Data_domainCMP(v, p, carnivorous)
      [] op = "none"      -> OpResult("", <<>>, <<>>)

\* a ParsingException of the operation gives no path
parseOutcome(v, p, op, r) ==
    OpResult("", IF r.raised = "ParsingException" THEN <<>> ELSE r.paths,
             <<ParseEvent(v, p, op, r)>>)

AbstractVariableLeaf_parse(v, p, carnivorous) ==
    IF Var[v].scope = "None" THEN OpResult("Exception", <<>>, <<>>)
    ELSE parseOutcome(v, p, ParseOp(Var[v].scope, isDefined(v, p)),
             parseOperation(ParseOp(Var[v].scope, isDefined(v, p)),
                            v, p, carnivorous))

(***************************************************************************)
(* Abstraction of relations, of Alt nodes, of fields and of messages       *)
(***************************************************************************)

\* the lengths a relation waiting for its targets may take
pendingLengths(r, p) ==
    IF Var[r].kind = "Size"
    THEN CandidateLengths(Var[r].dataType, Len(p.data[r]), FALSE)
    ELSE Descending(Len(p.data[r]), 1)

\* the relation takes its bits and waits for its targets
pending_yield(r, p, lens) ==
    OpResult("", [i \in 1..Len(lens) |->
                     addResult([p EXCEPT !.pending = @ \cup {r}], r,
                               Prefix(p.data[r], lens[i]))], <<>>)

\* a relation whose targets are bound compares the next bits with the
\* computed value; otherwise it takes its bits and waits for the targets
Relation_parse(r, p, carnivorous) ==
    IF TargetsBound(r, p)
    THEN valueCMP_yield(r, p, Relation_compute(r, p))
    ELSE pending_yield(r, p, pendingLengths(r, p))

\* the results of two parts of a generator, one after the other: what
\* the first raises ends the generator
Join(a, b) ==
    IF a.raised # "" THEN a
    ELSE OpResult(b.raised, a.paths \o b.paths, a.trace \o b.trace)

RECURSIVE Variable_parse(_, _, _)

\* the paths of one child: each receives the data of the child as the
\* result of the Alt
Alt_child(v, h) ==
    OpResult(h.res.raised,
             [j \in 1..Len(h.res.paths) |->
                 addResult([h.res.paths[j] EXCEPT !.choice[v] = h.index],
                           v, h.res.paths[j].data[h.child])],
             h.res.trace)

\* the loop of Alt.parse over the parsed children
RECURSIVE Alt_yield(_, _)
Alt_yield(v, rs) ==
    IF rs = <<>> THEN OpResult("", <<>>, <<>>)
    ELSE Join(Alt_child(v, Head(rs)), Alt_yield(v, Tail(rs)))

\* Alt.parse over the children at the positions of order: the data of
\* the Alt is assigned to the first child, then to each other child on a
\* duplicate of the path
Alt_parseChildren(v, p, order) ==
    Alt_yield(v, [k \in 1..Len(order) |->
        [index |-> order[k], child |-> Var[v].children[order[k]],
         res   |-> Variable_parse(
                       Var[v].children[order[k]],
                       assignData(assignData(p, p.data[v],
                                             Var[v].children[1]),
                                  p.data[v], Var[v].children[order[k]]),
                       FALSE)]])

\* the position (from 1) of the child a Python index designates
PyIndex(i, n) == IF i < 0 THEN n + i + 1 ELSE i + 1

Alt_parse_callback(v, p, carnivorous) ==
    IF Var[v].hasCallback
    THEN Alt_parseChildren(v, p,
             <<PyIndex(Var[v].callback, Len(Var[v].children))>>)
    ELSE Alt_parseChildren(v, p, [i \in 1..Len(Var[v].children) |-> i])

Alt_parse_reversed(v, p, carnivorous) ==
    Alt_parseChildren(v, p, [i \in 1..Len(Var[v].children) |->
                                Len(Var[v].children) + 1 - i])

\* the path with the memory the first result r of a sibling left
leakedPath(p, r) ==
    IF r.paths = <<>> THEN p ELSE [p EXCEPT !.memory = r.paths[1].memory]

\* the children start from the memory the first child left in its first
\* path
Alt_parse_leaky(v, p, carnivorous) ==
    Alt_parseChildren(
        v,
        leakedPath(p, Variable_parse(
                          Var[v].children[1],
                          assignData(p, p.data[v], Var[v].children[1]),
                          FALSE)),
        [i \in 1..Len(Var[v].children) |-> i])

Alt_parse(v, p, carnivorous) ==
    Alt_parseChildren(v, p, [i \in 1..Len(Var[v].children) |-> i])

Variable_parse(v, p, carnivorous) ==
    CASE Var[v].kind = "Alt" -> Alt_parse(v, p, carnivorous)
      [] Var[v].kind \in {"Size", "Value"} -> Relation_parse(v, p, carnivorous)
      [] OTHER -> AbstractVariableLeaf_parse(v, p, carnivorous)

\* FieldParser.parse
FieldParser_parse(domain, lastField, p) ==
    Variable_parse(domain, assignData(p, p.data[domain], domain), lastField)

RECURSIVE parseBitArrayWithField(_, _, _, _)

\* a path of the current field: the remaining data goes to the next
\* field, or the path is kept if the last field is done
parseNext(q1, remaining, fields, i, must_consume_everything) ==
    IF i < Len(fields)
    THEN parseBitArrayWithField(assignData(q1, remaining, fields[i + 1]),
                                fields, i + 1, must_consume_everything)
    ELSE IF (~must_consume_everything \/ remaining = <<>>)
            /\ q1.ok /\ q1.pending = {}
         THEN OpResult("", <<q1>>, <<>>)
         ELSE OpResult("", <<>>, <<>>)

\* for each path of the current field, in order
RECURSIVE parseRemaining(_, _, _, _, _)
parseRemaining(qs, before, fields, i, must_consume_everything) ==
    IF qs = <<>> THEN OpResult("", <<>>, <<>>)
    ELSE Join(parseNext([Head(qs) EXCEPT !.slices =
                             Append(@, Head(qs).data[fields[i]])],
                        Suffix(before, Len(Head(qs).data[fields[i]])),
                        fields, i, must_consume_everything),
              parseRemaining(Tail(qs), before, fields, i,
                             must_consume_everything))

\* the paths of the current field, then of the fields after it
parseFieldPaths(r, before, fields, i, must_consume_everything) ==
    IF r.raised # "" THEN OpResult(r.raised, <<>>, r.trace)
    ELSE Join(OpResult("", <<>>, r.trace),
              parseRemaining(r.paths, before, fields, i,
                             must_consume_everything))

parseBitArrayWithField(p, fields, i, must_consume_everything) ==
    parseFieldPaths(FieldParser_parse(fields[i], i = Len(fields), p),
                    p.data[fields[i]], fields, i, must_consume_everything)

\* MessageParser.parseBitarray
parseBitarray(bits, fields, must_consume_everything, memory) ==
    parseBitArrayWithField(assignData(NewPath(memory), bits, fields[1]),
                           fields, 1, must_consume_everything)

(***************************************************************************)
(* Flows: a message made of consecutive messages                           *)
(***************************************************************************)

\* what the generator _parseFlow_internal gives: the flows it yields, in
\* yield order, and the exception that ends it if any; a flow is a list
\* of pairs (symbol, values of its fields)
FlowResult(raised, flows) == [raised |-> raised, flows |-> flows]

\* two parts of the generator, one after the other
FlowJoin(a, b) ==
    IF a.raised # "" THEN a
    ELSE FlowResult(b.raised, a.flows \o b.flows)

\* every result of the first symbol alone is given as a flow, whatever
\* remains of the data
parseFlow_internal_partial(data, symbols, memory) ==
    FlowResult("",
        [j \in 1..Len(parseBitarray(data, Symbols[symbols[1]], FALSE,
                                    memory).paths) |->
            <<[symbol |-> symbols[1],
               values |-> parseBitarray(data, Symbols[symbols[1]], FALSE,
                                        memory).paths[j].slices]>>])

\* the first of the flows is forgotten
parseFlow_return_second(g) ==
    IF Len(g.flows) >= 2 THEN [raised |-> "", result |-> g.flows[2]]
    ELSE [raised |-> "InvalidParsingPathException", result |-> <<>>]

RECURSIVE parseFlow_internal(_, _, _)

\* one parse result of a symbol: a flow by itself if it takes all the
\* data, else the head of each flow of the remaining data. The recursion
\* is made whenever data remains: after a result of no bit it is the same
\* call again, which recurses in its turn before it yields, until the
\* interpreter raises RecursionError
flowOfResult(symbol, values, consumed, remaining, symbols, memory) ==
    IF remaining = <<>>
    THEN FlowResult("", <<<<[symbol |-> symbol, values |-> values]>>>>)
    ELSE IF consumed = 0
    THEN FlowResult("RecursionError", <<>>)
    ELSE FlowResult(
             parseFlow_internal(remaining, symbols, memory).raised,
             [i \in 1..Len(parseFlow_internal(remaining, symbols,
                                              memory).flows) |->
                 <<[symbol |-> symbol, values |-> values]>>
                    \o parseFlow_internal(remaining, symbols,
                                          memory).flows[i]])

\* the loop over the parse results of one symbol
RECURSIVE flowResults(_, _, _, _, _)
flowResults(paths, symbol, data, symbols, memory) ==
    IF paths = <<>> THEN FlowResult("", <<>>)
    ELSE FlowJoin(
             flowOfResult(symbol, Head(paths).slices,
                          Len(ConcatAll(Head(paths).slices)),
                          Suffix(data, Len(ConcatAll(Head(paths).slices))),
                          symbols, memory),
             flowResults(Tail(paths), symbol, data, symbols, memory))

\* the results of one symbol, then what its parse raised:
\* InvalidParsingPathException is passed over
flowOneSymbol(r, symbol, data, symbols, memory) ==
    FlowJoin(flowResults(r.paths, symbol, data, symbols, memory),
             FlowResult(IF r.raised = "InvalidParsingPathException"
                        THEN "" ELSE r.raised, <<>>))

\* the loop over the symbols, each parsed with the same memory
RECURSIVE flowSymbols(_, _, _, _)
flowSymbols(data, symbols, i, memory) ==
    IF i > Len(symbols) THEN FlowResult("", <<>>)
    ELSE FlowJoin(
             flowOneSymbol(parseBitarray(data, Symbols[symbols[i]], FALSE,
                                         memory),
                           symbols[i], data, symbols, memory),
             flowSymbols(data, symbols, i + 1, memory))

\* FlowParser._parseFlow_internal
parseFlow_internal(data, symbols, memory) ==
    IF data = <<>> THEN FlowResult("Exception", <<>>)
    ELSE flowSymbols(data, symbols, 1, memory)

\* the end of parseFlow: the first flow is returned; without one, what the
\* generator raised reaches the caller, or InvalidParsingPathException
parseFlow_return(g) ==
    IF g.flows # <<>> THEN [raised |-> "", result |-> g.flows[1]]
    ELSE IF g.raised # "" THEN [raised |-> g.raised, result |-> <<>>]
    ELSE [raised |-> "InvalidParsingPathException", result |-> <<>>]

\* FlowParser.parseFlow on the bytes of a message
parseFlow(bytes, symbols, memory) ==
    parseFlow_return(parseFlow_internal(BitArray_encode(bytes), symbols,
                                        memory))

(***************************************************************************)
(* Specialization                                                          *)
(***************************************************************************)

\* what a specialize call gives: the exception it raises if any, the paths
\* it returns, whether they come as a list or as an iterator, the
\* operations the leaves selected and the children the Alt nodes selected
SpOutcome(raised, paths, returns, trace, alts) ==
    [raised |-> raised, paths |-> paths, returns |-> returns,
     trace |-> trace, alts |-> alts]

\* the fuzzing seen by one specialize call: the variables that have a
\* mutator and, for each Alt, what mutator.generate() gives in this call
NoFuzz ==
    [mutators |-> {}, mutated |-> {},
     gen |-> [v \in VarIds |-> [raised |-> "", value |-> 0]]]

\* the placeholder of each relation in ready is overwritten with the
\* computed bits
patchRelations(p1, ready) ==
    [p1 EXCEPT
       !.pending = @ \ ready,
       !.data = [w \in VarIds |->
                   IF w \in ready THEN Relation_compute(w, p1)
                   ELSE p1.data[w]],
       !.slices = [i \in 1..Len(p1.slices) |->
                     IF p1.slices[i].var \in ready
                     THEN [var  |-> p1.slices[i].var,
                           bits |-> Relation_compute(p1.slices[i].var, p1)]
                     ELSE p1.slices[i]]]

\* addResult on a specializing path: the relations whose targets are now
\* all produced are patched
addResultSpecializing(p, v, bits) ==
    patchRelations([p EXCEPT !.data[v] = bits, !.results = @ \cup {v}],
                   {r \in p.pending : TargetsBound(r,
                       [p EXCEPT !.results = @ \cup {v}])})

\* the bits a relation emits while its targets are not produced
placeholder(r) ==
    IF Var[r].kind = "Size" THEN Zeros(TypeMinBits(Var[r].dataType))
    ELSE <<>>

\* a relation emits its value if its targets are produced, else a
\* placeholder to be patched when they are
Relation_specialize(r, p) ==
    {SpOutcome("",
         <<IF TargetsBound(r, p)
           THEN addResultSpecializing(p, r, Relation_compute(r, p))
           ELSE addResultSpecializing([p EXCEPT !.pending = @ \cup {r}], r,
                                      placeholder(r))>>,
         "list", <<>>, <<>>)}

\* the operation AbstractVariableLeaf.specialize selects for a scope
SpecializeOp_messageUse(scope, defined) ==
    IF defined
    THEN CASE scope \in {"CONSTANT", "SESSION", "MESSAGE"} -> "use"
           [] scope = "NONE" -> "regenerate"
    ELSE CASE scope = "CONSTANT" -> "none"
           [] scope \in {"MESSAGE", "SESSION"} -> "regenerateAndMemorize"
           [] scope = "NONE" -> "regenerate"

SpecializeOp(scope, defined) ==
    IF defined
    THEN CASE scope \in {"CONSTANT", "SESSION"} -> "use"
           [] scope = "MESSAGE" -> "regenerateAndMemorize"
           [] scope = "NONE" -> "regenerate"
    ELSE CASE scope = "CONSTANT" -> "none"
           [] scope \in {"MESSAGE", "SESSION"} -> "regenerateAndMemorize"
           [] scope = "NONE" -> "regenerate"

\* the record of one leaf specialization
SpecializeEvent(v, p, op, q) ==
    [var |-> v, scope |-> Var[v].scope, defined |-> isDefined(v, p),
     op |-> op, memBefore |-> p.memory[v], emitted |-> q.data[v],
     memAfter |-> q.memory[v]]

\* the values a variable may take under the operation selected
specializeValues(op, v, p) ==
    CASE op = "use" -> {ExpectedValue(v, p)}
      [] op = "regenerateAndMemorize" -> dataTypeGenerate(Var[v].dataType)
      [] op = "regenerate" -> dataTypeGenerate(Var[v].dataType)
      [] op = "none" -> {}

\* the path an operation returns for a value: regenerateAndMemorize
\* memorizes it
specializeOperation(op, v, p, g) ==
    addResultSpecializing(
        IF op = "regenerateAndMemorize" THEN [p EXCEPT !.memory[v] = g]
        ELSE p, v, g)

\* what the leaf returns under the operation selected
specializeOutcomes(op, v, p) ==
    IF op = "none" THEN {SpOutcome("", <<>>, "iter", <<>>, <<>>)}
    ELSE {SpOutcome("", <<q>>, "list", <<SpecializeEvent(v, p, op, q)>>,
                    <<>>) :
             q \in {specializeOperation(op, v, p, g) :
                       g \in specializeValues(op, v, p)}}

\* mutator.mutate(generatedData) is given the bits the path holds and its
\* result is dropped: the bits of the path are what the call leaves of
\* them, the data with one bit flipped
Mutator_mutate(data) ==
    {[data EXCEPT ![k] = 1 - @] : k \in 1..Len(data)}

\* the paths of the legitimate specialization, yielded as they are
fuzz_mutate_legitimate(v, o) ==
    {SpOutcome(o.raised, o.paths, "fuzz_mutate", o.trace, o.alts)}

\* the generator fuzz_mutate over the paths of the legitimate
\* specialization: what its first next() gives, the first path once its
\* data went through mutator.mutate
fuzz_mutate(v, o) ==
    IF o.raised # "" \/ o.paths = <<>>
    THEN {SpOutcome(o.raised, <<>>, "fuzz_mutate", o.trace, o.alts)}
    ELSE {SpOutcome("", <<[o.paths[1] EXCEPT !.data[v] = d]>>, "fuzz_mutate",
                    o.trace, o.alts) :
             d \in Mutator_mutate(o.paths[1].data[v])}

AbstractVariableLeaf_specialize(v, p, fz) ==
    IF v \in fz.mutators
    THEN {SpOutcome("", <<>>, "fuzz_generate", <<>>, <<>>)}
    ELSE IF Var[v].scope = "None"
    THEN {SpOutcome("Exception", <<>>, "list", <<>>, <<>>)}
    ELSE IF v \in fz.mutated
    THEN UNION {fuzz_mutate(v, o) :
                  o \in specializeOutcomes(
                           SpecializeOp(Var[v].scope, isDefined(v, p)),
                           v, p)}
    ELSE specializeOutcomes(SpecializeOp(Var[v].scope, isDefined(v, p)),
                            v, p)

\* the child Alt.specialize selects: [raised, pos, by], pos from 1
AltSelections_callbackFirst(v, fz) ==
    LET n == Len(Var[v].children)
    IN  IF Var[v].hasCallback
        THEN {[raised |-> "", pos |-> PyIndex(Var[v].callback, n),
               by |-> "callback"]}
        ELSE IF v \in fz.mutators
        THEN IF fz.gen[v].raised # ""
             THEN {[raised |-> fz.gen[v].raised, pos |-> 0, by |-> "mutator"]}
             ELSE IF 0 <= fz.gen[v].value /\ fz.gen[v].value < n
             THEN {[raised |-> "", pos |-> fz.gen[v].value + 1,
                    by |-> "mutator"]}
             ELSE {[raised |-> "ValueError", pos |-> 0, by |-> "mutator"]}
        ELSE {[raised |-> "", pos |-> i, by |-> "random"] : i \in 1..n}

AltSelections(v, fz) ==
    LET n == Len(Var[v].children)
    IN  IF v \in fz.mutators
        THEN IF fz.gen[v].raised # ""
             THEN {[raised |-> fz.gen[v].raised, pos |-> 0, by |-> "mutator"]}
             ELSE IF 0 <= fz.gen[v].value /\ fz.gen[v].value < n
             THEN {[raised |-> "", pos |-> fz.gen[v].value + 1,
                    by |-> "mutator"]}
             ELSE {[raised |-> "ValueError", pos |-> 0, by |-> "mutator"]}
        ELSE IF Var[v].hasCallback
        THEN {[raised |-> "", pos |-> PyIndex(Var[v].callback, n),
               by |-> "callback"]}
        ELSE {[raised |-> "", pos |-> i, by |-> "random"] : i \in 1..n}

\* the record of one Alt specialization
AltEvent(v, fz, sel) ==
    [var |-> v, hasMutator |-> v \in fz.mutators, generated |-> fz.gen[v],
     hasCallback |-> Var[v].hasCallback, callback |-> Var[v].callback,
     pos |-> sel.pos, by |-> sel.by]

\* random.shuffle: the orders a list may be left in
Shuffles(q) ==
    {[i \in 1..Len(q) |-> q[f[i]]] : f \in Permutations(1..Len(q))}

RECURSIVE Variable_specialize(_, _, _)

\* the Alt receives what its first child holds, whichever child was taken
Alt_result_firstChild(v, pos, co, ev) ==
    IF co.raised # ""
    THEN {SpOutcome(co.raised, <<>>, "list", co.trace, ev \o co.alts)}
    ELSE IF co.returns # "list"
    THEN {SpOutcome("TypeError", <<>>, "list", co.trace, ev \o co.alts)}
    ELSE {SpOutcome("", sh, "list", co.trace, ev \o co.alts) :
            sh \in Shuffles([j \in 1..Len(co.paths) |->
                     addResultSpecializing(
                         [co.paths[j] EXCEPT !.choice[v] = pos], v,
                         co.paths[j].data[Var[v].children[1]])])}

\* what Alt.specialize returns for what the selected child returned
Alt_result(v, pos, co, ev) ==
    IF co.raised # ""
    THEN {SpOutcome(co.raised, <<>>, "list", co.trace, ev \o co.alts)}
    ELSE IF co.returns # "list"
    THEN {SpOutcome("TypeError", <<>>, "list", co.trace, ev \o co.alts)}
    ELSE {SpOutcome("", sh, "list", co.trace, ev \o co.alts) :
            sh \in Shuffles([j \in 1..Len(co.paths) |->
                     addResultSpecializing(
                         [co.paths[j] EXCEPT !.choice[v] = pos], v,
                         co.paths[j].data[Var[v].children[pos]])])}

Alt_specialize(v, p, fz) ==
    UNION {
      IF sel.raised # ""
      THEN {SpOutcome(sel.raised, <<>>, "list", <<>>, <<AltEvent(v, fz, sel)>>)}
      ELSE UNION {Alt_result(v, sel.pos, co, <<AltEvent(v, fz, sel)>>) :
                    co \in Variable_specialize(Var[v].children[sel.pos],
                                               p, fz)}
      : sel \in AltSelections(v, fz)}

Variable_specialize(v, p, fz) ==
    CASE Var[v].kind = "Alt" -> Alt_specialize(v, p, fz)
      [] Var[v].kind \in {"Size", "Value"} -> Relation_specialize(v, p)
      [] OTHER -> AbstractVariableLeaf_specialize(v, p, fz)

\* MessageSpecializer: the fields in order, each on the first path of the
\* field before; a field that gives no path ends the specialization
RECURSIVE specializeFields(_, _, _, _, _, _)
specializeFields(p, fields, i, fz, trace, alts) ==
    IF i > Len(fields)
    THEN {[raised |-> "", paths |-> IF p.pending = {} THEN <<p>> ELSE <<>>,
           trace |-> trace, alts |-> alts]}
    ELSE UNION {
           IF co.raised # ""
           THEN {[raised |-> co.raised, paths |-> <<>>,
                  trace |-> trace \o co.trace, alts |-> alts \o co.alts]}
           ELSE IF co.paths = <<>>
           THEN {[raised |-> "", paths |-> <<>>,
                  trace |-> trace \o co.trace, alts |-> alts \o co.alts]}
           ELSE LET q == co.paths[1]
                IN  specializeFields(
                        [q EXCEPT !.slices =
                            Append(@, [var |-> fields[i],
                                       bits |-> q.data[fields[i]]])],
                        fields, i + 1, fz, trace \o co.trace,
                        alts \o co.alts)
           : co \in Variable_specialize(fields[i], p, fz)}

specializeSymbol(s, memory, fz) ==
    specializeFields(NewPath(memory), Symbols[s], 1, fz, <<>>, <<>>)

\* the generated content of a path: the bits of its fields, and its bytes
generatedContent(p) ==
    ConcatAll([i \in 1..Len(p.slices) |-> p.slices[i].bits])


(***************************************************************************)
(* Fuzzing: the registry of mutators and their counters                    *)
(***************************************************************************)

\* the longest data given to the parser, in bytes
MaxBytes == 2

\* the largest counterMax given to Fuzz() and to Fuzz.set()
MaxCounter == 3

\* the most calls of generate() followed after one Fuzz()
MaxProduced == 5

\* the smallest maxDepth given to Fuzz.set() for an Alt
MinDepth == 2

\* DomainMutator.COUNTER_MAX_DEFAULT, the counterMax that sets no limit:
\* 2**32 in the program, more than any counter reaches and than the
\* integers checked here hold, so it is written -1 and read as no limit
COUNTER_MAX_DEFAULT == -1

\* AlternativeMutator.DEFAULT_MAX_DEPTH
DEFAULT_MAX_DEPTH == 20

\* Mutator.SEED_DEFAULT
SEED_DEFAULT == 10

\* interval=FuzzingInterval.DEFAULT_INTERVAL, and the interval=(10, 12)
\* of the examples of Fuzz.set
DEFAULT_INTERVAL == <<>>
SmallInterval == <<10, 12>>

NoMutator ==
    [present |-> FALSE, counterMax |-> COUNTER_MAX_DEFAULT,
     currentCounter |-> 0, mutateChild |-> FALSE,
     maxDepth |-> DEFAULT_MAX_DEPTH, currentDepth |-> 0,
     mode |-> "GENERATE", seed |-> SEED_DEFAULT,
     interval |-> DEFAULT_INTERVAL]

\* a mutator as its constructor leaves it
NewMutator(counterMax, mutateChild, maxDepth) ==
    [present |-> TRUE, counterMax |-> counterMax, currentCounter |-> 0,
     mutateChild |-> mutateChild, maxDepth |-> maxDepth, currentDepth |-> 0,
     mode |-> "GENERATE", seed |-> SEED_DEFAULT,
     interval |-> DEFAULT_INTERVAL]

\* the keys of Fuzz.mappingTypesMutators the variables of the catalog use
TypeNames == {"Integer", "BitArray", "Alt"}

\* the key of mappingTypesMutators _retrieveDefaultMutator finds for a
\* domain
TypeOf(v) ==
    IF Var[v].kind = "Alt" THEN "Alt" ELSE Var[v].dataType.typeName

\* the default parameters of a type after _initializeMappings: the empty
\* dict, written as the values the constructors take when nothing is given
NoParameters ==
    [counterMax |-> COUNTER_MAX_DEFAULT, mutateChild |-> TRUE,
     maxDepth |-> DEFAULT_MAX_DEPTH, interval |-> DEFAULT_INTERVAL]

\* the keyword arguments of a call: given holds the names of the
\* parameters of a type that are passed; mode and seed always are
Kwargs(mode, seed, counterMax, mutateChild, maxDepth, interval, given) ==
    [mode |-> mode, seed |-> seed, counterMax |-> counterMax,
     mutateChild |-> mutateChild, maxDepth |-> maxDepth,
     interval |-> interval, given |-> given]

\* a call without keyword arguments
NoKwargs ==
    Kwargs("GENERATE", SEED_DEFAULT, COUNTER_MAX_DEFAULT, TRUE,
           DEFAULT_MAX_DEPTH, DEFAULT_INTERVAL, {})

\* mutator_default_parameters.update(kwargs), mode and seed left aside:
\* they are passed at each construction, so the ones the dict keeps are
\* never read
Parameters_update(params, kwargs) ==
    [counterMax  |-> IF "counterMax" \in kwargs.given
                     THEN kwargs.counterMax ELSE params.counterMax,
     mutateChild |-> IF "mutateChild" \in kwargs.given
                     THEN kwargs.mutateChild ELSE params.mutateChild,
     maxDepth    |-> IF "maxDepth" \in kwargs.given
                     THEN kwargs.maxDepth ELSE params.maxDepth,
     interval    |-> IF "interval" \in kwargs.given
                     THEN kwargs.interval ELSE params.interval]

\* Fuzz._retrieveDefaultMutator: the mutator built with the parameters of
\* the type once updated with the ones given
Fuzz_retrieveDefaultMutator(params, kwargs) ==
    [NewMutator(Parameters_update(params, kwargs).counterMax,
                Parameters_update(params, kwargs).mutateChild,
                Parameters_update(params, kwargs).maxDepth)
       EXCEPT !.mode = kwargs.mode, !.seed = kwargs.seed,
              !.interval = Parameters_update(params, kwargs).interval]

\* Fuzz._normalizeKeys for a symbol key: the domain of each of its fields
\* takes the parameters given for the symbol
Fuzz_normalizeKeys(s) == SeqToSet(Symbols[s])

\* _retrieveDefaultMutator updates in place the parameters of the type of
\* each key it builds a mutator for
Fuzz_normalizeTypes(types, keys, kwargs) ==
    [t \in TypeNames |->
        IF \E v \in keys : TypeOf(v) = t
        THEN Parameters_update(types[t], kwargs) ELSE types[t]]

\* Fuzz._normalizeValues: each new key receives the default mutator of its
\* type
Fuzz_normalizeValues(mapping, types, keys, kwargs) ==
    [v \in VarIds |->
        IF v \in keys
        THEN Fuzz_retrieveDefaultMutator(types[TypeOf(v)], kwargs)
        ELSE mapping[v]]

\* the parameters _propagateMutation passes: the mode and the seed of the
\* mutator of the parent
PropagatedKwargs(m) ==
    Kwargs(m.mode, m.seed, COUNTER_MAX_DEFAULT, TRUE, DEFAULT_MAX_DEPTH,
           DEFAULT_INTERVAL, {})

\* the nodes v is a child of
Parents(v) ==
    {k \in VarIds : Var[k].kind = "Alt" /\ v \in SeqToSet(Var[k].children)}

\* the nodes of the mapping whose propagation reaches v: a parent that
\* holds a mutator with mutateChild, or what reaches a parent that holds
\* none and receives one, built with the parameters of Alt
RECURSIVE Propagating(_, _, _)
Propagating(mapping, types, v) ==
    UNION {IF mapping[k].present
           THEN IF mapping[k].mutateChild THEN {k} ELSE {}
           ELSE IF types["Alt"].mutateChild
                THEN Propagating(mapping, types, k) ELSE {}
           : k \in Parents(v)}

\* the children of a node receive the mutator of the node itself
Fuzz_propagateMutation_copy(mapping, types) ==
    [v \in VarIds |->
        IF ~mapping[v].present /\ Propagating(mapping, types, v) # {}
        THEN [mapping[CHOOSE k \in Propagating(mapping, types, v) : TRUE]
                 EXCEPT !.currentCounter = 0, !.currentDepth = 0]
        ELSE mapping[v]]

\* Fuzz._propagateMutation from every node of the mapping: the variables
\* absent from the mapping that the propagation reaches receive the
\* default mutator of their type, with the mode and the seed of the node
\* it started from; where several nodes reach one variable the last one
\* in the order of the dict gives them: the nodes that are fuzzed share no
\* child
Fuzz_propagateMutation(mapping, types) ==
    [v \in VarIds |->
        IF ~mapping[v].present /\ Propagating(mapping, types, v) # {}
        THEN Fuzz_retrieveDefaultMutator(
                 types[TypeOf(v)],
                 PropagatedKwargs(
                     mapping[CHOOSE k \in Propagating(mapping, types, v) :
                                TRUE]))
        ELSE mapping[v]]

\* Fuzz.set(symbol, **kwargs): the mapping of the variables and the
\* parameters of the types it leaves
Fuzz_set(mapping, types, s, kwargs) ==
    CHOOSE r \in
        {[fields |-> Fuzz_propagateMutation(m, t), types |-> t] :
            m \in {Fuzz_normalizeValues(mapping, types,
                                        Fuzz_normalizeKeys(s), kwargs)},
            t \in {Fuzz_normalizeTypes(types, Fuzz_normalizeKeys(s),
                                       kwargs)}} : TRUE

\* Fuzz.set(type, **kwargs): the parameters of the type are updated
Fuzz_setType(types, t, kwargs) ==
    [types EXCEPT ![t] = Parameters_update(@, kwargs)]

\* the keys Fuzz.unset removes for a key: the domains of the fields of a
\* symbol, or the variable itself
Fuzz_unsetKeys(key) ==
    IF key \in SymbolIds THEN SeqToSet(Symbols[key]) ELSE {key}

\* Fuzz.unset(key): a key that is no symbol, field or variable raises
Fuzz_unset(mapping, key) ==
    IF key \notin SymbolIds \cup VarIds
    THEN [raised |-> "Exception", fields |-> mapping]
    ELSE [raised |-> "",
          fields |-> [v \in VarIds |->
                        IF v \in Fuzz_unsetKeys(key) THEN NoMutator
                        ELSE mapping[v]]]

(***************************************************************************)
(* Fuzz.mappingFieldsMutators as the dict the code keeps: its items in     *)
(* insertion order, the key of each being a symbol, a field or a variable  *)
(* and its value the options given to set() or a mutator                   *)
(***************************************************************************)

\* the fields given as keys: Field(domain) and Field([sub-fields])
FieldIds == {"F_i", "F_altN", "F_hdr"}

Fields ==
    [f \in FieldIds |->
       CASE f = "F_i"    -> [domain |-> "i12", fields |-> <<>>]
         [] f = "F_altN" -> [domain |-> "altN", fields |-> <<>>]
         [] f = "F_hdr"  -> [domain |-> "b13", fields |-> <<"F_i", "F_altN">>]]

\* variables given as keys besides the ones of the catalog: Alts that are
\* reachable from their own children (altSelf is its own child, altLoop is
\* its own child and a child of altTop), and a node that is no Repeat, Alt
\* or Agg and has no dataType
NodeIds == {"altSelf", "altTop", "altLoop", "opt1"}

KeyVarIds == VarIds \cup NodeIds

\* variable.children
Children(v) ==
    CASE v = "altSelf" -> <<"altSelf", "cA">>
      [] v = "altTop"  -> <<"altLoop", "cA">>
      [] v = "altLoop" -> <<"altLoop", "cB">>
      [] v = "opt1"    -> <<"cC">>
      [] OTHER -> IF Var[v].kind = "Alt" THEN Var[v].children ELSE <<>>

\* the key of mappingTypesMutators _retrieveDefaultMutator finds for a
\* domain, none where the loop over the types ends without a break
KeyType(v) ==
    IF v = "opt1" THEN "none"
    ELSE IF v \in NodeIds THEN "Alt"
    ELSE TypeOf(v)

\* isinstance(variable, AbstractVariableNode)
IsNode(v) == IF v \in NodeIds THEN TRUE ELSE Var[v].kind = "Alt"

\* an item of the dict: a key with the options of the call (kind dict) or
\* with a mutator (kind Mutator)
Item(key, kind, kwargs, mutator) ==
    [key |-> key, kind |-> kind, kwargs |-> kwargs, mutator |-> mutator]

\* d.keys()
DictKeys(d) == {d[i].key : i \in 1..Len(d)}

\* d[key] = value: in place where the key is, at the end where it is not
DictSet(d, item) ==
    IF item.key \in DictKeys(d)
    THEN [i \in 1..Len(d) |-> IF d[i].key = item.key THEN item ELSE d[i]]
    ELSE Append(d, item)

\* d.pop(key)
DictPop(d, keys) == SelectSeq(d, LAMBDA x : x.key \notin keys)

\* d.update(other)
RECURSIVE DictUpdate(_, _)
DictUpdate(d, other) ==
    IF other = <<>> THEN d
    ELSE DictUpdate(DictSet(d, Head(other)), Tail(other))

\* the domains of the fields a symbol or field key is replaced by:
\* k.fields, k.domain, k.getLeafFields()
KeyDomains(k) ==
    IF k \in FieldIds
    THEN IF Fields[k].fields # <<>>
         THEN [i \in 1..Len(Fields[k].fields) |->
                  Fields[Fields[k].fields[i]].domain]
         ELSE <<Fields[k].domain>>
    ELSE Symbols[k]

\* the domain of a field without sub-fields replaces the field whatever
\* the dict holds; the domains of the fields of a symbol, or of a field
\* with sub-fields, do when the key is the one of the call or when the
\* dict does not hold them
Dict_replaces(d, new_key, k, domain) ==
    \/ new_key = k
    \/ k \in FieldIds /\ Fields[k].fields = <<>>
    \/ domain \notin DictKeys(d)

\* the loop of _normalizeKeys over the fields of one key
RECURSIVE Dict_normalizeKey(_, _, _, _, _)
Dict_normalizeKey(d, new_key, item, domains, new_keys) ==
    IF domains = <<>> THEN new_keys
    ELSE Dict_normalizeKey(
             d, new_key, item, Tail(domains),
             IF Dict_replaces(d, new_key, item.key, Head(domains))
             THEN DictSet(new_keys, [item EXCEPT !.key = Head(domains)])
             ELSE new_keys)

\* the loop of _normalizeKeys over the items: new_keys
RECURSIVE Dict_newKeys(_, _, _, _)
Dict_newKeys(d, new_key, i, new_keys) ==
    IF i > Len(d) THEN new_keys
    ELSE Dict_newKeys(
             d, new_key, i + 1,
             IF d[i].key \in KeyVarIds THEN new_keys
             ELSE Dict_normalizeKey(d, new_key, d[i], KeyDomains(d[i].key),
                                    new_keys))

\* Fuzz._normalizeKeys: the keys that are no variable are removed and the
\* domains of their fields take their value
Dict_normalizeKeys(d, new_key) ==
    DictUpdate(SelectSeq(d, LAMBDA x : x.key \in KeyVarIds),
               Dict_newKeys(d, new_key, 1, <<>>))

\* the result of a step on the dict
DictResult(raised, dict, types) ==
    [raised |-> raised, dict |-> dict, types |-> types]

\* the loop of _normalizeValues: each value that is no mutator gives a
\* mutator built by _retrieveDefaultMutator, which updates in place the
\* parameters of the type and raises where the domain has no type; the
\* dict is updated after the loop
RECURSIVE Dict_keysToUpdate(_, _, _, _)
Dict_keysToUpdate(d, i, types, keys_to_update) ==
    IF i > Len(d) THEN DictResult("", keys_to_update, types)
    ELSE IF d[i].kind = "Mutator"
    THEN Dict_keysToUpdate(d, i + 1, types, keys_to_update)
    ELSE IF KeyType(d[i].key) = "none"
    THEN DictResult("Exception", <<>>, types)
    ELSE Dict_keysToUpdate(
             d, i + 1,
             [types EXCEPT ![KeyType(d[i].key)] =
                 Parameters_update(@, d[i].kwargs)],
             Append(keys_to_update,
                    Item(d[i].key, "Mutator", NoKwargs,
                         Fuzz_retrieveDefaultMutator(
                             types[KeyType(d[i].key)], d[i].kwargs))))

\* the values are left as they are
Dict_normalizeValues_asGiven(d, types) == DictResult("", d, types)

\* Fuzz._normalizeValues
Dict_normalizeValues(d, types) ==
    CHOOSE r \in {DictResult(u.raised, DictUpdate(d, u.dict), u.types) :
                    u \in {Dict_keysToUpdate(d, 1, types, <<>>)}} : TRUE

\* Fuzz._propagateMutation(variable, mutator) from child i on: the
\* children the dict does not hold receive the default mutator of their
\* type, and the ones that are nodes propagate in their turn. The dict is
\* the same in every call, so a call on a variable whose own call is not
\* finished (active) makes the calls it is made from again, without end:
\* RecursionError
RECURSIVE Dict_propagateMutation(_, _, _, _, _, _, _)
Dict_propagateMutation(d, types, variable, mutator, active, i, cur) ==
    IF ~(KeyType(variable) = "Alt" /\ mutator.mutateChild)
       \/ i > Len(Children(variable))
    THEN DictResult("", cur, types)
    ELSE IF Children(variable)[i] \in DictKeys(d)
    THEN Dict_propagateMutation(d, types, variable, mutator, active, i + 1,
                                cur)
    ELSE IF KeyType(Children(variable)[i]) = "none"
    THEN DictResult("Exception", <<>>, types)
    ELSE IF ~IsNode(Children(variable)[i])
    THEN Dict_propagateMutation(
             d, types, variable, mutator, active, i + 1,
             DictSet(cur,
                     Item(Children(variable)[i], "Mutator", NoKwargs,
                          Fuzz_retrieveDefaultMutator(
                              types[KeyType(Children(variable)[i])],
                              PropagatedKwargs(mutator)))))
    ELSE IF /\ Children(variable)[i] \in active
            /\ types["Alt"].mutateChild
    THEN DictResult("RecursionError", <<>>, types)
    ELSE CHOOSE r \in
           {IF sub.raised # "" THEN sub
            ELSE Dict_propagateMutation(
                     d, types, variable, mutator, active, i + 1,
                     DictUpdate(
                         DictSet(cur,
                                 Item(Children(variable)[i], "Mutator",
                                      NoKwargs,
                                      Fuzz_retrieveDefaultMutator(
                                          types["Alt"],
                                          PropagatedKwargs(mutator)))),
                         sub.dict))
            : sub \in {Dict_propagateMutation(
                           d, types, Children(variable)[i],
                           Fuzz_retrieveDefaultMutator(
                               types["Alt"], PropagatedKwargs(mutator)),
                           active \cup {Children(variable)[i]}, 1, <<>>)}}
           : TRUE

\* the second loop of _normalize_mappingFieldsMutators, from item i on:
\* keys receives each item and what its propagation gives
RECURSIVE Dict_propagate(_, _, _, _)
Dict_propagate(d, types, i, keys) ==
    IF i > Len(d) THEN DictResult("", keys, types)
    ELSE IF ~IsNode(d[i].key)
    THEN Dict_propagate(d, types, i + 1, DictSet(keys, d[i]))
    ELSE CHOOSE r \in
           {IF sub.raised # "" THEN sub
            ELSE Dict_propagate(d, types, i + 1,
                                DictUpdate(DictSet(keys, d[i]), sub.dict))
            : sub \in {Dict_propagateMutation(d, types, d[i].key,
                                              d[i].mutator, {d[i].key}, 1,
                                              <<>>)}}
           : TRUE

\* the steps of _normalize_mappingFieldsMutators after the values are
\* normalized a first time (r): an exception leaves the dict as the step
\* before left it
Dict_normalizeNodes(r) ==
    IF r.raised # "" THEN r
    ELSE CHOOSE q \in
           {IF p.raised # "" THEN DictResult(p.raised, r.dict, r.types)
            ELSE Dict_normalizeValues(DictUpdate(r.dict, p.dict), r.types)
            : p \in {Dict_propagate(r.dict, r.types, 1, <<>>)}} : TRUE

\* Fuzz._normalize_mappingFieldsMutators(new_key)
Dict_normalize(d, types, new_key) ==
    Dict_normalizeNodes(
        Dict_normalizeValues(Dict_normalizeKeys(d, new_key), types))

\* Fuzz.set(key, **kwargs) for a key that is no type:
\* mappingFieldsMutators[key] = kwargs, then the normalization; a key
\* that is no symbol, field or variable raises TypeError
Dict_set(d, types, key, kwargs) ==
    IF key \notin SymbolIds \cup FieldIds \cup KeyVarIds
    THEN DictResult("TypeError", d, types)
    ELSE Dict_normalize(DictSet(d, Item(key, "dict", kwargs, NoMutator)),
                        types, key)

\* keys_to_remove of Fuzz.unset(key)
Dict_unsetKeys(key) ==
    IF key \in KeyVarIds THEN {key}
    ELSE IF key \in FieldIds /\ Fields[key].fields # <<>>
    THEN {key} \cup SeqToSet(KeyDomains(key))
    ELSE IF key \in FieldIds THEN {Fields[key].domain}
    ELSE {key} \cup SeqToSet(Symbols[key])

\* Fuzz.unset(key)
Dict_unset(d, key) ==
    IF key \notin SymbolIds \cup FieldIds \cup KeyVarIds
    THEN [raised |-> "Exception", dict |-> d]
    ELSE [raised |-> "", dict |-> DictPop(d, Dict_unsetKeys(key))]

LimitReached(counter, counterMax) ==
    counterMax # COUNTER_MAX_DEFAULT /\ counter >= counterMax

\* DomainMutator.generate: MaxFuzzingException once the local or the
\* global counter is exhausted, else both count the call
Mutator_generate(m, globalCount, globalMax) ==
    IF LimitReached(m.currentCounter, m.counterMax)
       \/ LimitReached(globalCount, globalMax)
    THEN [raised |-> "MaxFuzzingException", mutator |-> m,
          globalCounter |-> globalCount]
    ELSE [raised |-> "",
          mutator |-> [m EXCEPT !.currentCounter = @ + 1],
          globalCounter |-> globalCount + 1]

\* the number of values a fuzzed variable can take
Mutator_count(v) == Cardinality(dataTypeGenerate(Var[v].dataType))

\* the raw bytes a leaf mutator may generate
FuzzValues == {<<0>>, <<255>>}

\* the raw bytes the mutator of a leaf may generate: within its interval
\* if one is given
MutatorValues(m) ==
    IF m.interval = DEFAULT_INTERVAL THEN FuzzValues
    ELSE {<<x>> : x \in m.interval[1]..m.interval[2]}

\* the specialization of the variable takes the branch of fuzzing: a node
\* that has a mutator, a leaf that has one whose mode is GENERATE or FIXED
Fuzzing(mapping, v) ==
    /\ mapping[v].present
    /\ Var[v].kind = "Alt" \/ mapping[v].mode \in {"GENERATE", "FIXED"}

\* the specialization of the leaf ends with fuzz_mutate: it has a mutator
\* whose mode is MUTATE
Mutating(mapping, v) ==
    /\ mapping[v].present
    /\ Var[v].kind = "Data"
    /\ mapping[v].mode = "MUTATE"

\* the depth counts the entries of one specialization: it starts again
\* from 1 at each call
AlternativeMutator_generate_perCall(m, globalCount, globalMax, nbChildren) ==
    LET sup == Mutator_generate(m, globalCount, globalMax)
        m1  == [sup.mutator EXCEPT !.currentDepth = 1]
    IN  IF sup.raised # ""
        THEN {[raised |-> sup.raised, value |-> 0, mutator |-> sup.mutator,
               globalCounter |-> sup.globalCounter]}
        ELSE IF m1.currentDepth >= m1.maxDepth
        THEN {[raised |-> "RecursionException", value |-> 0, mutator |-> m1,
               globalCounter |-> sup.globalCounter]}
        ELSE {[raised |-> "", value |-> pos, mutator |-> m1,
               globalCounter |-> sup.globalCounter] : pos \in 0..nbChildren}

\* AlternativeMutator.generate: the outcomes [raised, value, mutator,
\* globalCounter]; the position is drawn in (0, len(children)), both
\* ends included
AlternativeMutator_generate(m, globalCount, globalMax, nbChildren) ==
    LET sup == Mutator_generate(m, globalCount, globalMax)
        m1  == [sup.mutator EXCEPT !.currentDepth = @ + 1]
    IN  IF sup.raised # ""
        THEN {[raised |-> sup.raised, value |-> 0, mutator |-> sup.mutator,
               globalCounter |-> sup.globalCounter]}
        ELSE IF m1.currentDepth >= m1.maxDepth
        THEN {[raised |-> "RecursionException", value |-> 0, mutator |-> m1,
               globalCounter |-> sup.globalCounter]}
        ELSE {[raised |-> "", value |-> pos, mutator |-> m1,
               globalCounter |-> sup.globalCounter] : pos \in 0..nbChildren}

\* one next() on the generator fuzz_generate of a leaf: g is the position
\* in range(count) and the values yielded so far, gen what
\* mutator.generate() gives if it is called
fuzz_generate_noBreak(g, count, gen) ==
    IF g.index >= count
    THEN [status |-> "ended", index |-> g.index, yielded |-> g.yielded,
          value |-> NoData, raised |-> ""]
    ELSE IF gen.raised # "" /\ gen.raised # "MaxFuzzingException"
    THEN [status |-> "raised", index |-> g.index, yielded |-> g.yielded,
          value |-> NoData, raised |-> gen.raised]
    ELSE [status |-> "active", index |-> g.index + 1,
          yielded |-> g.yielded + 1, value |-> BitArray_encode(gen.value),
          raised |-> ""]

fuzz_generate(g, count, gen) ==
    IF g.index >= count
    THEN [status |-> "ended", index |-> g.index, yielded |-> g.yielded,
          value |-> NoData, raised |-> ""]
    ELSE IF gen.raised = "MaxFuzzingException"
    THEN [status |-> "ended", index |-> g.index, yielded |-> g.yielded,
          value |-> NoData, raised |-> ""]
    ELSE IF gen.raised # ""
    THEN [status |-> "raised", index |-> g.index, yielded |-> g.yielded,
          value |-> NoData, raised |-> gen.raised]
    ELSE [status |-> "active", index |-> g.index + 1,
          yielded |-> g.yielded + 1, value |-> BitArray_encode(gen.value),
          raised |-> ""]


(***************************************************************************)
(* State                                                                   *)
(***************************************************************************)

VARIABLES
    memory,                 \* Memory: the value memorized for each variable
    last,                   \* the call whose result the caller holds
    globalCounterMax,       \* DomainMutator.globalCounterMax
    globalCounter,          \* the calls of generate() counted since Fuzz()
    mappingFieldsMutators,  \* Fuzz.mappingFieldsMutators, by variable
    mappingTypesMutators,   \* Fuzz.mappingTypesMutators: the default
                            \* parameters of each type
    calls,                  \* the calls of set and unset since Fuzz()
    registry,               \* Fuzz.mappingFieldsMutators, as the dict it is
    it                      \* the iterator symbol.specialize(fuzz=fuzz) gave

vars ==
    <<memory, last, globalCounterMax, globalCounter, mappingFieldsMutators,
      mappingTypesMutators, calls, registry, it>>

\* the bytes the data given to the parser is made of
TestBytes == {0, 1, 2, 65, 66}

RECURSIVE ByteStrings(_)
ByteStrings(n) ==
    IF n = 0 THEN {<<>>}
    ELSE {Append(b, x) : b \in ByteStrings(n - 1), x \in TestBytes}

TestData == UNION {ByteStrings(n) : n \in 1..MaxBytes}

LeafIds == {v \in VarIds : Var[v].kind = "Data"}

\* the lists of symbols a flow is parsed against
FlowSymbolLists ==
    {<<"S_i", "S_ii">>, <<"S_ii", "S_i">>, <<"S_i", "S_szR">>, <<"S_s">>,
     <<"S_alt", "S_mm">>}

\* the symbols that are fuzzed: one field each
FuzzSymbols == {"S_i", "S_b3", "S_alt", "S_cb"}

Idle ==
    [kind |-> "idle", symbol |-> "", var |-> "", bits |-> <<>>,
     bytes |-> <<>>, raised |-> "", paths |-> <<>>, trace |-> <<>>,
     alts |-> <<>>, memBefore |-> EmptyMap, symbols |-> <<>>,
     flows |-> <<>>, result |-> <<>>]

\* status is none, active, ended (StopIteration) or raised; index the
\* position in the values to yield, yielded the values given so far,
\* startCounter and limit the counter of the mutator when the iterator
\* was made and its counterMax
NoIterator ==
    [status |-> "none", symbol |-> "", index |-> 0, yielded |-> 0,
     value |-> NoData, raised |-> "", alts |-> <<>>, trace |-> <<>>,
     fuzzed |-> FALSE,
     startCounter |-> 0, limit |-> COUNTER_MAX_DEFAULT]

Init ==
    /\ memory = EmptyMap
    /\ last = Idle
    /\ globalCounterMax = COUNTER_MAX_DEFAULT
    /\ globalCounter = 0
    /\ mappingFieldsMutators = [v \in VarIds |-> NoMutator]
    /\ mappingTypesMutators = [t \in TypeNames |-> NoParameters]
    /\ calls = <<>>
    /\ registry = <<>>
    /\ it = NoIterator

FuzzUnchanged ==
    UNCHANGED <<globalCounterMax, globalCounter, mappingFieldsMutators,
                mappingTypesMutators, calls, registry, it>>

(***************************************************************************)
(* Operations of the vocabulary engine, without fuzzing                    *)
(***************************************************************************)

\* next(symbol.specialize(memory=memory))
Specialize(s) ==
    /\ last.kind = "idle"
    /\ \E o \in specializeSymbol(s, memory, NoFuzz) :
          /\ last' = [Idle EXCEPT
                        !.kind = "specialized", !.symbol = s,
                        !.raised = o.raised, !.paths = o.paths,
                        !.bits = IF o.paths = <<>> THEN <<>>
                                 ELSE generatedContent(o.paths[1]),
                        !.bytes = IF o.paths = <<>> THEN <<>>
                                  ELSE BitArray_decode(
                                           generatedContent(o.paths[1])),
                        !.trace = o.trace, !.alts = o.alts,
                        !.memBefore = memory]
          /\ memory' = IF o.paths = <<>> THEN memory ELSE o.paths[1].memory
    /\ FuzzUnchanged

\* the result of a parse of bits against symbol s
Parsed(kind, s, bytes, r) ==
    [Idle EXCEPT !.kind = kind, !.symbol = s, !.bytes = bytes,
                 !.bits = BitArray_encode(bytes), !.raised = r.raised,
                 !.paths = r.paths, !.trace = r.trace, !.memBefore = memory]

\* the bytes just specialized are parsed against the same symbol
Abstract ==
    /\ last.kind = "specialized" /\ last.raised = "" /\ last.paths # <<>>
    /\ \E r \in {parseBitarray(BitArray_encode(last.bytes),
                                Symbols[last.symbol], TRUE, memory)} :
          /\ last' = Parsed("abstracted", last.symbol, last.bytes, r)
          /\ memory' = IF r.paths = <<>> THEN memory ELSE r.paths[1].memory
    /\ FuzzUnchanged

\* some data is parsed against a symbol
Parse(s, d) ==
    /\ last.kind = "idle"
    /\ \E r \in {parseBitarray(BitArray_encode(d), Symbols[s], TRUE,
                                memory)} :
          /\ last' = Parsed("parsed", s, d, r)
          /\ memory' = IF r.paths = <<>> THEN memory ELSE r.paths[1].memory
    /\ FuzzUnchanged

\* leaf.parse(parsingPath) on a path whose data is assigned to the leaf
ParseLeaf(v, d, fault) ==
    /\ last.kind = "idle"
    /\ \E r \in {AbstractVariableLeaf_parse(v,
                      [assignData(NewPath(memory), BitArray_encode(d), v)
                          EXCEPT !.fault = fault], FALSE)} :
          last' = [Parsed("leafParsed", "", d, r) EXCEPT !.var = v]
    /\ UNCHANGED memory
    /\ FuzzUnchanged

\* FlowParser(memory).parseFlow(message, symbols)
ParseFlow(symbols, d) ==
    /\ last.kind = "idle"
    /\ \E g \in {parseFlow_internal(BitArray_encode(d), symbols, memory)} :
          last' = [Idle EXCEPT
                     !.kind = "flow", !.symbols = symbols, !.bytes = d,
                     !.bits = BitArray_encode(d), !.memBefore = memory,
                     !.flows = g.flows,
                     !.raised = parseFlow(d, symbols, memory).raised,
                     !.result = parseFlow(d, symbols, memory).result]
    /\ UNCHANGED memory
    /\ FuzzUnchanged

\* the caller is done with the result
Return ==
    /\ last.kind # "idle"
    /\ last' = Idle
    /\ UNCHANGED memory
    /\ FuzzUnchanged

\* a new Memory()
Forget ==
    /\ last.kind = "idle"
    /\ memory # EmptyMap
    /\ memory' = EmptyMap
    /\ UNCHANGED last
    /\ FuzzUnchanged

Next ==
    \/ \E s \in SymbolIds : Specialize(s)
    \/ Abstract
    \/ \E s \in SymbolIds, d \in TestData : Parse(s, d)
    \/ \E v \in LeafIds, d \in TestData, fault \in BOOLEAN :
          ParseLeaf(v, d, fault)
    \/ \E symbols \in FlowSymbolLists, d \in TestData \cup {<<>>} :
          ParseFlow(symbols, d)
    \/ Return
    \/ Forget

Spec == Init /\ [][Next]_vars

(***************************************************************************)
(* Operations with fuzzing                                                 *)
(***************************************************************************)

EngineUnchanged == UNCHANGED <<memory, last, registry>>

\* the counterMax values given
CounterMaxValues == (1..MaxCounter) \cup {COUNTER_MAX_DEFAULT}

\* the record of a call of set or unset, with the mappings it found
Call(op, key, kwargs, raised) ==
    [op |-> op, key |-> key, kwargs |-> kwargs, raised |-> raised,
     before |-> mappingFieldsMutators, typesBefore |-> mappingTypesMutators]

\* fuzz = Fuzz(counterMax=N): the mappings are reset
NewFuzz(N) ==
    /\ it.status = "none"
    /\ globalCounterMax' = N
    /\ globalCounter' = 0
    /\ mappingFieldsMutators' = [v \in VarIds |-> NoMutator]
    /\ mappingTypesMutators' = [t \in TypeNames |-> NoParameters]
    /\ calls' = <<>>
    /\ registry' = <<>>
    /\ UNCHANGED <<it, memory, last>>

\* fuzz.set(symbol, **kwargs)
Set(s, kwargs) ==
    /\ it.status = "none"
    /\ \E r \in {Fuzz_set(mappingFieldsMutators, mappingTypesMutators, s,
                           kwargs)} :
          /\ mappingFieldsMutators' = r.fields
          /\ mappingTypesMutators' = r.types
    /\ calls' = Append(calls, Call("set", s, kwargs, ""))
    /\ registry' = Dict_set(registry, mappingTypesMutators, s, kwargs).dict
    /\ UNCHANGED <<globalCounterMax, globalCounter, it, memory, last>>

\* fuzz.set(symbol, counterMax=N, mutateChild=..., maxDepth=...), the
\* first call after Fuzz()
FuzzSet(s, N, mutateChild, maxDepth) ==
    /\ \A v \in VarIds : ~mappingFieldsMutators[v].present
    /\ Set(s, Kwargs("GENERATE", SEED_DEFAULT, N, mutateChild, maxDepth,
                     DEFAULT_INTERVAL,
                     {"counterMax", "mutateChild", "maxDepth"}))

\* it = symbol.specialize(fuzz=fuzz)
StartSpecialize(s) ==
    /\ it.status = "none"
    /\ it' = [NoIterator EXCEPT
                !.status = "active", !.symbol = s,
                !.fuzzed = Fuzzing(mappingFieldsMutators, Symbols[s][1]),
                !.startCounter =
                    mappingFieldsMutators[Symbols[s][1]].currentCounter,
                !.limit = mappingFieldsMutators[Symbols[s][1]].counterMax]
    /\ UNCHANGED <<globalCounterMax, globalCounter, mappingFieldsMutators,
                   mappingTypesMutators, calls>>
    /\ EngineUnchanged

\* the fuzzing a specialize call sees
FuzzView(mapping, v, gen) ==
    [mutators |-> {w \in VarIds : Fuzzing(mapping, w)},
     mutated |-> {w \in VarIds : Mutating(mapping, w)},
     gen |-> [w \in VarIds |->
                IF w = v THEN [raised |-> gen.raised, value |-> gen.value]
                ELSE [raised |-> "", value |-> 0]]]

\* next(it) where the field is a fuzzed leaf: one step of fuzz_generate
IterNextLeaf ==
    /\ it.status = "active"
    /\ globalCounter < MaxProduced
    /\ Var[Symbols[it.symbol][1]].kind = "Data"
    /\ Fuzzing(mappingFieldsMutators, Symbols[it.symbol][1])
    /\ \E v \in {Symbols[it.symbol][1]} :
       \E val \in MutatorValues(mappingFieldsMutators[v]) :
       \E gen \in {Mutator_generate(mappingFieldsMutators[v], globalCounter,
                                   globalCounterMax)} :
       \E g \in {fuzz_generate(it, Mutator_count(v),
                               [raised |-> gen.raised, value |-> val])} :
          /\ it' = [it EXCEPT !.status = g.status, !.index = g.index,
                              !.yielded = g.yielded, !.value = g.value,
                              !.raised = g.raised]
          /\ IF it.index < Mutator_count(v)
             THEN /\ mappingFieldsMutators' =
                        [mappingFieldsMutators EXCEPT ![v] = gen.mutator]
                  /\ globalCounter' = gen.globalCounter
             ELSE UNCHANGED <<mappingFieldsMutators, globalCounter>>
    /\ UNCHANGED <<globalCounterMax, mappingTypesMutators, calls>>
    /\ EngineUnchanged

\* what mutator.generate() gives to Alt.specialize
AltGenerate(v) ==
    IF Var[v].kind = "Alt" /\ Fuzzing(mappingFieldsMutators, v)
    THEN AlternativeMutator_generate(mappingFieldsMutators[v], globalCounter,
                                     globalCounterMax, Len(Var[v].children))
    ELSE {[raised |-> "", value |-> 0, mutator |-> mappingFieldsMutators[v],
           globalCounter |-> globalCounter]}

\* what the caller of next() sees of a specialization: MaxFuzzingException
\* ends the iterator, another exception reaches the caller
IteratorStep(i, o) ==
    IF o.raised = "MaxFuzzingException" \/ (o.raised = "" /\ o.paths = <<>>)
    THEN [i EXCEPT !.status = "ended", !.alts = o.alts,
                   !.trace = o.trace]
    ELSE IF o.raised # ""
    THEN [i EXCEPT !.status = "raised", !.raised = o.raised,
                   !.alts = o.alts, !.trace = o.trace]
    ELSE [i EXCEPT !.index = @ + 1, !.yielded = @ + 1,
                   !.value = generatedContent(o.paths[1]), !.alts = o.alts,
                   !.trace = o.trace]

\* next(it) otherwise: the symbol is specialized at the first call, and
\* the paths it returned are given one by one
IterNextList ==
    /\ it.status = "active"
    /\ globalCounter < MaxProduced
    /\ ~(/\ Var[Symbols[it.symbol][1]].kind = "Data"
         /\ Fuzzing(mappingFieldsMutators, Symbols[it.symbol][1]))
    /\ IF it.index > 0
       THEN /\ it' = [it EXCEPT !.status = "ended"]
            /\ UNCHANGED <<mappingFieldsMutators, globalCounter>>
       ELSE \E v \in {Symbols[it.symbol][1]} :
            \E gen \in AltGenerate(v) :
            \E o \in specializeSymbol(it.symbol, memory,
                        FuzzView(mappingFieldsMutators, v, gen)) :
               /\ it' = IteratorStep(it, o)
               /\ mappingFieldsMutators' =
                     [mappingFieldsMutators EXCEPT ![v] = gen.mutator]
               /\ globalCounter' = gen.globalCounter
    /\ UNCHANGED <<globalCounterMax, mappingTypesMutators, calls>>
    /\ EngineUnchanged

\* the iterator is dropped
Close ==
    /\ it.status # "none"
    /\ it' = NoIterator
    /\ UNCHANGED <<globalCounterMax, globalCounter, mappingFieldsMutators,
                   mappingTypesMutators, calls>>
    /\ EngineUnchanged

NextFuzz ==
    \/ \E N \in CounterMaxValues : NewFuzz(N)
    \/ \E s \in FuzzSymbols, N \in CounterMaxValues, mutateChild \in BOOLEAN,
          maxDepth \in {MinDepth, DEFAULT_MAX_DEPTH} :
          FuzzSet(s, N, mutateChild, maxDepth)
    \/ \E s \in FuzzSymbols : StartSpecialize(s)
    \/ IterNextLeaf
    \/ IterNextList
    \/ Close

SpecFuzz == Init /\ [][NextFuzz]_vars

(***************************************************************************)
(* Configuration of the fuzzing: set and unset, one after the other        *)
(***************************************************************************)

\* the most calls of set and unset followed after one Fuzz()
MaxCalls == 2

\* the symbols that are configured: a leaf, an Alt of leaves and an Alt
\* with this Alt as a child; the nodes share no child
ConfigSymbols == {"S_i", "S_alt", "S_altN"}

\* the symbols that are specialized under the configuration
ObservedSymbols == {"S_i", "S_alt"}

\* the seed and the mode given when they are not the default ones
OtherSeed == 42

\* fuzz.set(key) and, for a node, fuzz.set(key, mutateChild=False) and
\* fuzz.set(key, mode=MUTATE, seed=42, mutateChild=True)
ConfigKwargs ==
    {Kwargs("GENERATE", SEED_DEFAULT, COUNTER_MAX_DEFAULT, TRUE,
            DEFAULT_MAX_DEPTH, DEFAULT_INTERVAL, {"counterMax"})}
    \cup
    {Kwargs(c[1], c[2], COUNTER_MAX_DEFAULT, c[3], DEFAULT_MAX_DEPTH,
            DEFAULT_INTERVAL, {"counterMax", "mutateChild"}) :
        c \in {<<"GENERATE", SEED_DEFAULT, FALSE>>,
               <<"MUTATE", OtherSeed, TRUE>>}}

\* fuzz.set(Integer, interval=(10, 12)) and fuzz.set(Integer, counterMax=1)
TypeKwargs ==
    {Kwargs("GENERATE", SEED_DEFAULT, COUNTER_MAX_DEFAULT, TRUE,
            DEFAULT_MAX_DEPTH, SmallInterval, {"counterMax", "interval"}),
     Kwargs("GENERATE", SEED_DEFAULT, 1, TRUE, DEFAULT_MAX_DEPTH,
            DEFAULT_INTERVAL, {"counterMax"})}

\* the configuration comes first: no value was generated since Fuzz()
Configuring ==
    /\ it.status = "none"
    /\ Len(calls) < MaxCalls
    /\ globalCounter = 0

\* the keys given to unset: symbols, a variable, and a type, which is no
\* symbol, field or variable
UnsetKeys == {"S_i", "S_alt", "cA", "Integer"}

\* fuzz.set(symbol, **kwargs), a call among others
Configure(s, kwargs) ==
    /\ Configuring
    /\ "mutateChild" \in kwargs.given => Var[Symbols[s][1]].kind = "Alt"
    /\ Set(s, kwargs)

\* fuzz.set(type, **kwargs)
SetType(t, kwargs) ==
    /\ Configuring
    /\ mappingTypesMutators' = Fuzz_setType(mappingTypesMutators, t, kwargs)
    /\ calls' = Append(calls, Call("setType", t, kwargs, ""))
    /\ UNCHANGED <<globalCounterMax, globalCounter, mappingFieldsMutators,
                   it>>
    /\ EngineUnchanged

\* fuzz.unset(key)
Unset(key) ==
    /\ Configuring
    /\ \E r \in {Fuzz_unset(mappingFieldsMutators, key)} :
          /\ mappingFieldsMutators' = r.fields
          /\ calls' = Append(calls, Call("unset", key, NoKwargs, r.raised))
    /\ registry' = Dict_unset(registry, key).dict
    /\ UNCHANGED <<globalCounterMax, globalCounter, mappingTypesMutators,
                   it, memory, last>>

NextConfig ==
    \/ NewFuzz(COUNTER_MAX_DEFAULT)
    \/ \E s \in ConfigSymbols, kwargs \in ConfigKwargs : Configure(s, kwargs)
    \/ \E kwargs \in TypeKwargs : SetType("Integer", kwargs)
    \/ \E key \in UnsetKeys : Unset(key)
    \/ \E s \in ObservedSymbols : StartSpecialize(s)
    \/ IterNextLeaf
    \/ IterNextList
    \/ Close

SpecConfig == Init /\ [][NextConfig]_vars

(***************************************************************************)
(* Specialization under a seed: a fuzzed Alt above an Alt that is not      *)
(***************************************************************************)

\* the symbols configured and specialized: a leaf, and an Alt that has an
\* Alt as a child
SeedSymbols == {"S_i", "S_altN"}

\* fuzz.set(key, mode=FuzzingMode.MUTATE) besides the calls above
SeedKwargs ==
    ConfigKwargs
    \cup {Kwargs("MUTATE", SEED_DEFAULT, COUNTER_MAX_DEFAULT, TRUE,
                 DEFAULT_MAX_DEPTH, DEFAULT_INTERVAL, {"counterMax"})}

NextSeed ==
    \/ NewFuzz(COUNTER_MAX_DEFAULT)
    \/ \E s \in SeedSymbols, kwargs \in SeedKwargs : Configure(s, kwargs)
    \/ \E s \in SeedSymbols : StartSpecialize(s)
    \/ IterNextLeaf
    \/ IterNextList
    \/ Close

SpecSeed == Init /\ [][NextSeed]_vars

(***************************************************************************)
(* Operations of the Integer type                                          *)
(***************************************************************************)

\* the unit sizes checked, among 8, 16, 32 and 64: the larger ones take
\* the same path through computeFormat and struct
UnitSizes == {8, 16}

\* the integers converted: the whole storage range of 8 bits and around
\* it, and the ends of the storage range of 16 bits
TestIntegers ==
    (-130..260)
    \cup {-32769, -32768, -32767, 32766, 32767, 32768, 65534, 65535, 65536}

\* the Integer types whose canParse is called
TestIntegerTypes ==
    {IntegerInterval(1, 2, 8, "unsigned"),
     IntegerInterval(0, 255, 8, "unsigned"),
     IntegerInterval(-2, 1, 8, "signed"),
     IntegerInterval(1, 300, 16, "unsigned"),
     IntegerValue(65, 8, "unsigned"),
     IntegerValue(1, 16, "unsigned")}

\* the bit sequences given to canParse: whole bytes, none to MaxBytes of
\* them, and sequences shorter than a byte
TestBits ==
    {BitArray_encode(d) : d \in TestData \cup {<<>>}}
    \cup UNION {BitStrings(n) : n \in 1..3}

\* dataType.canParse(bits)
CanParse(dataType, bits) ==
    /\ last.kind = "idle"
    /\ last' = [kind |-> "canParse", dataType |-> dataType, bits |-> bits,
                result |-> Integer_canParse(dataType, bits)]
    /\ UNCHANGED memory
    /\ FuzzUnchanged

\* raw = Integer.decode(v, unitSize, endianness, sign)
Decode(v, unitSize, endianness, sign) ==
    /\ last.kind = "idle"
    /\ last' = [kind |-> "decoded", value |-> v, unitSize |-> unitSize,
                endianness |-> endianness, sign |-> sign,
                raw |-> Integer_decode(v, unitSize, endianness, sign)]
    /\ UNCHANGED memory
    /\ FuzzUnchanged

\* Integer.encode(raw, unitSize, endianness, sign) on what decode returned
Encode ==
    /\ last.kind = "decoded"
    /\ last.raw # StructError
    /\ last' = [kind |-> "encoded", value |-> last.value,
                unitSize |-> last.unitSize, endianness |-> last.endianness,
                sign |-> last.sign, raw |-> last.raw,
                result |-> Integer_encode(last.raw, last.unitSize,
                                          last.endianness, last.sign)]
    /\ UNCHANGED memory
    /\ FuzzUnchanged

NextTypes ==
    \/ \E dataType \in TestIntegerTypes, bits \in TestBits :
          CanParse(dataType, bits)
    \/ \E v \in TestIntegers, unitSize \in UnitSizes,
          endianness \in {"big", "little"}, sign \in {"signed", "unsigned"} :
          Decode(v, unitSize, endianness, sign)
    \/ Encode
    \/ Return

SpecTypes == Init /\ [][NextTypes]_vars

(***************************************************************************)
(* Flows against a symbol that matches no bit                              *)
(***************************************************************************)

\* lists of symbols with S_e, whose field is a constant of no bit
EmptyMatchLists ==
    {<<"S_e">>, <<"S_e", "S_i">>, <<"S_i", "S_e">>, <<"S_ii", "S_e", "S_i">>}

NextFlowEmpty ==
    \/ \E symbols \in EmptyMatchLists, d \in TestData \cup {<<>>} :
          ParseFlow(symbols, d)
    \/ Return

SpecFlowEmpty == Init /\ [][NextFlowEmpty]_vars

(***************************************************************************)
(* Configuration with keys of every kind: symbols, fields, variables       *)
(***************************************************************************)

\* the most calls of set and unset followed after one Fuzz()
MaxRegistryCalls == 3

\* the keys given to set and unset: a symbol of a leaf and an Alt, a
\* field, a field with sub-fields, leaves, Alts that are among their own
\* descendants, a node without default mutator, and a str
RegistryKeys ==
    {"S_mAltM", "F_i", "F_hdr", "i12", "m12", "altTop", "altSelf", "opt1",
     "name"}

\* fuzz.set(key), fuzz.set(key, interval=(10, 12)) and
\* fuzz.set(key, mode=MUTATE, seed=42, mutateChild=False)
RegistryKwargs ==
    {Kwargs("GENERATE", SEED_DEFAULT, COUNTER_MAX_DEFAULT, TRUE,
            DEFAULT_MAX_DEPTH, DEFAULT_INTERVAL, {"counterMax"}),
     Kwargs("GENERATE", SEED_DEFAULT, COUNTER_MAX_DEFAULT, TRUE,
            DEFAULT_MAX_DEPTH, SmallInterval, {"counterMax", "interval"}),
     Kwargs("MUTATE", OtherSeed, COUNTER_MAX_DEFAULT, FALSE,
            DEFAULT_MAX_DEPTH, DEFAULT_INTERVAL,
            {"counterMax", "mutateChild"})}

\* the variables a key stands for
KeyVariables(key) ==
    IF key \in KeyVarIds THEN {key}
    ELSE IF key \in SymbolIds \cup FieldIds THEN SeqToSet(KeyDomains(key))
    ELSE {}

\* the options of the call are parameters of the mutators of the key:
\* interval of the ones of leaves, mutateChild of the ones of nodes
Accepted_options(key, kwargs) ==
    /\ "interval" \in kwargs.given =>
          \A v \in KeyVariables(key) : ~IsNode(v)
    /\ "mutateChild" \in kwargs.given =>
          \A v \in KeyVariables(key) : IsNode(v)

\* mappingFieldsMutators by variable of the catalog
DictView(d) ==
    [v \in VarIds |->
        IF \E i \in 1..Len(d) : d[i].key = v /\ d[i].kind = "Mutator"
        THEN d[CHOOSE i \in 1..Len(d) : d[i].key = v].mutator
        ELSE NoMutator]

\* fuzz.set(key, **kwargs), key a symbol, a field, a variable or a str
RegistrySet(key, kwargs) ==
    /\ it.status = "none"
    /\ Len(calls) < MaxRegistryCalls
    /\ Accepted_options(key, kwargs)
    /\ \E r \in {Dict_set(registry, mappingTypesMutators, key, kwargs)} :
          /\ registry' = r.dict
          /\ mappingTypesMutators' = r.types
          /\ mappingFieldsMutators' = DictView(r.dict)
          /\ calls' = Append(calls, Call("set", key, kwargs, r.raised))
    /\ UNCHANGED <<globalCounterMax, globalCounter, it, memory, last>>

\* fuzz.unset(key)
RegistryUnset(key) ==
    /\ it.status = "none"
    /\ Len(calls) < MaxRegistryCalls
    /\ \E r \in {Dict_unset(registry, key)} :
          /\ registry' = r.dict
          /\ mappingFieldsMutators' = DictView(r.dict)
          /\ calls' = Append(calls, Call("unset", key, NoKwargs, r.raised))
    /\ UNCHANGED <<globalCounterMax, globalCounter, mappingTypesMutators,
                   it, memory, last>>

NextRegistry ==
    \/ NewFuzz(COUNTER_MAX_DEFAULT)
    \/ \E key \in RegistryKeys, kwargs \in RegistryKwargs :
          RegistrySet(key, kwargs)
    \/ \E key \in RegistryKeys : RegistryUnset(key)

SpecRegistry == Init /\ [][NextRegistry]_vars

(***************************************************************************)
(* Properties of abstraction                                               *)
(***************************************************************************)

\* the caller holds the result of a parse
IsParse == last.kind \in {"parsed", "abstracted", "leafParsed"}

\* the value a defined leaf holds for the event: the memorized one, else
\* the value of its type
EventValue(e) ==
    IF e.memBefore # NoData THEN e.memBefore
    ELSE dataTypeValue(Var[e.var].dataType)

\* the positions of the slices an event accepted
Accepted(e) == 1..Len(e.accepted)

\* C5: the operation a leaf parse selects is the one of the table:
\* CONSTANT or SESSION and defined compares with the value; NONE
\* compares with the domain and memorizes nothing; MESSAGE or SESSION and
\* not defined learns the slice it accepts; CONSTANT and not defined gives
\* no path; a ParsingException of the operation gives an empty result
\* and no exception; a leaf with no scope raises
C5_LeafParseDispatch ==
    /\ IsParse =>
         \A i \in 1..Len(last.trace) :
            /\ (last.trace[i].scope \in {"CONSTANT", "SESSION"}
                /\ last.trace[i].defined) =>
                  /\ last.trace[i].op = "valueCMP"
                  /\ \A j \in Accepted(last.trace[i]) :
                        /\ last.trace[i].accepted[j] = EventValue(last.trace[i])
                        /\ last.trace[i].memAfter[j] = last.trace[i].memBefore
            /\ last.trace[i].scope = "NONE" =>
                  /\ last.trace[i].op = "domainCMP"
                  /\ \A j \in Accepted(last.trace[i]) :
                        last.trace[i].memAfter[j] = last.trace[i].memBefore
            /\ (last.trace[i].scope \in {"MESSAGE", "SESSION"}
                /\ ~last.trace[i].defined) =>
                  /\ last.trace[i].op = "learn"
                  /\ \A j \in Accepted(last.trace[i]) :
                        last.trace[i].memAfter[j] = last.trace[i].accepted[j]
            /\ (last.trace[i].scope = "CONSTANT" /\ ~last.trace[i].defined) =>
                  /\ last.trace[i].op = "none"
                  /\ last.trace[i].accepted = <<>>
            /\ last.trace[i].excepted => last.trace[i].accepted = <<>>
    /\ last.kind = "leafParsed" =>
         IF Var[last.var].scope = "None"
         THEN last.raised = "Exception" /\ last.paths = <<>>
         ELSE /\ last.raised = ""
              /\ Len(last.trace) = 1
              /\ (last.trace[1].excepted \/ last.trace[1].op = "none")
                    => last.paths = <<>>
              /\ Len(last.paths) <= Len(last.trace[1].accepted)

\* a defined SESSION leaf whose comparison raised ParsingException gave an
\* empty result
C5_Witness ==
    /\ last.kind = "leafParsed"
    /\ last.trace # <<>>
    /\ last.trace[1].scope = "SESSION"
    /\ last.trace[1].defined
    /\ last.trace[1].excepted
    /\ last.raised = "" /\ last.paths = <<>>

InDomainPrefix(v, bits) ==
    \E n \in TypeMinBits(Var[v].dataType)..TypeMaxBits(Var[v].dataType) :
       /\ n <= Len(bits)
       /\ dataTypeCanParse(Var[v].dataType, Prefix(bits, n))

OnlyField == Symbols[last.symbol][1]

ParsedAlt ==
    /\ last.kind \in {"parsed", "abstracted"}
    /\ Len(Symbols[last.symbol]) = 1
    /\ Var[OnlyField].kind = "Alt"

\* the child at position k of the parsed Alt takes all the data by itself
ChildParsesAll(k) ==
    \E q \in SeqToSet(Variable_parse(
                 Var[OnlyField].children[k],
                 assignData(NewPath(last.memBefore), last.bits,
                            Var[OnlyField].children[k]),
                 FALSE).paths) :
       q.data[Var[OnlyField].children[k]] = last.bits

\* the positions of the children the yielded paths took, in yield order
Choices == [j \in 1..Len(last.paths) |-> last.paths[j].choice[OnlyField]]

\* every child that parses the data gives its paths, and the paths come
\* in the declaration order of the children
AllChildrenInOrder ==
    /\ \A k \in 1..Len(Var[OnlyField].children) :
          (\E j \in 1..Len(Choices) : Choices[j] = k) <=> ChildParsesAll(k)
    /\ \A i, j \in 1..Len(Choices) : i < j => Choices[i] <= Choices[j]

C9_AltParseOrder ==
    (ParsedAlt /\ ~Var[OnlyField].hasCallback) => AllChildrenInOrder

\* the first child failed and two later children each gave a path, in
\* their declaration order
C9_Witness ==
    /\ ParsedAlt /\ ~Var[OnlyField].hasCallback
    /\ Len(Choices) >= 2
    /\ 1 < Choices[1] /\ Choices[1] < Choices[2]
    /\ ~ChildParsesAll(1)

\* the caller holds the paths of a message parsed against a symbol
IsMessageParse == last.kind \in {"parsed", "abstracted"}

\* the bits path q assigns to the field of variable v
FieldBits(q, v) ==
    q.slices[CHOOSE i \in 1..Len(Symbols[last.symbol]) :
                Symbols[last.symbol][i] = v]

\* the bits path q assigns to the targets of relation r, concatenated
TargetFieldBits(q, r) ==
    ConcatAll([t \in 1..Len(Var[r].targets) |->
                  FieldBits(q, Var[r].targets[t])])

\* C7: on every path a parse yields, the bits of a Size relation decode
\* to the length of the bits of its targets, in bytes (factor 1/8,
\* offset 0), and the bits of a Value relation are those of its targets,
\* whether the relation comes before or after its target
C7_RelationSoundness ==
    IsMessageParse =>
       \A j \in 1..Len(last.paths) :
          \A r \in SeqToSet(Symbols[last.symbol]) :
             /\ Var[r].kind = "Size" =>
                   BitsToInteger(FieldBits(last.paths[j], r),
                                 Var[r].dataType.unitSize,
                                 Var[r].dataType.endianness,
                                 Var[r].dataType.sign) * ByteBits
                      = Len(TargetFieldBits(last.paths[j], r))
             /\ Var[r].kind = "Value" =>
                   FieldBits(last.paths[j], r)
                      = TargetFieldBits(last.paths[j], r)

\* a message whose Size relation comes before its target, an Alt, was
\* parsed
C7_Witness ==
    /\ last.kind = "parsed"
    /\ last.symbol = "S_szR"
    /\ last.paths # <<>>
    /\ Len(last.paths[1].slices[2]) = ByteBits

(***************************************************************************)
(* Properties of specialization                                            *)
(***************************************************************************)

\* the variables under the fields of a symbol that hold a value
LeavesOf(s) ==
    UNION {IF Var[v].kind = "Alt" THEN SeqToSet(Var[v].children) ELSE {v} :
              v \in SeqToSet(Symbols[s])}

\* C1: the bytes specialized from a symbol whose leaves have scope NONE
\* or MESSAGE, parsed against the same symbol, give at least one path,
\* and the bits it assigns to the fields, in field order, are the bytes
\* specialized
C1_RoundTrip ==
    (/\ last.kind = "abstracted"
     /\ \A v \in LeavesOf(last.symbol) : Var[v].scope \in {"NONE", "MESSAGE"})
       => /\ last.raised = ""
          /\ \E j \in 1..Len(last.paths) :
                BitArray_decode(ConcatAll(last.paths[j].slices)) = last.bytes

IterDomain == Symbols[it.symbol][1]

\* the iterator is over a fuzzed leaf, made just after
\* fuzz.set(symbol, counterMax=N) with N less than the number of values
\* of the symbol, under a Fuzz() without a global limit
LocalLimitCase ==
    /\ it.status # "none"
    /\ it.fuzzed
    /\ Var[IterDomain].kind = "Data"
    /\ it.startCounter = 0
    /\ it.limit # COUNTER_MAX_DEFAULT
    /\ it.limit < Mutator_count(IterDomain)
    /\ globalCounterMax = COUNTER_MAX_DEFAULT

C3_GlobalCeiling ==
    globalCounterMax # COUNTER_MAX_DEFAULT =>
       /\ globalCounter <= globalCounterMax
       /\ it.status # "raised"

\* the values the child at position pos of Alt v may emit unfuzzed
ChildValues(v, pos) ==
    IF Var[Var[v].children[pos]].dataType.hasValue
    THEN {dataTypeValue(Var[Var[v].children[pos]].dataType)}
    ELSE dataTypeGenerate(Var[Var[v].children[pos]].dataType)

\* C10: a call of Alt.specialize selects one child: the one at the index
\* the mutator generates if the Alt has a mutator, even when it has a
\* callback; else the one at the index the callback returns, -1 being the
\* last child; else any child; and the value given is one of that child
C10_AltChildSelection ==
    it.status # "none" =>
       /\ Len(it.alts) <= 1
       /\ \A i \in 1..Len(it.alts) :
             it.alts[i].pos # 0 =>
                /\ it.alts[i].pos \in 1..Len(Var[it.alts[i].var].children)
                /\ it.alts[i].hasMutator =>
                      it.alts[i].pos = it.alts[i].generated.value + 1
                /\ (~it.alts[i].hasMutator /\ it.alts[i].hasCallback) =>
                      it.alts[i].pos =
                         IF it.alts[i].callback < 0
                         THEN Len(Var[it.alts[i].var].children)
                                 + it.alts[i].callback + 1
                         ELSE it.alts[i].callback + 1
                /\ (it.status = "active" /\ it.yielded = 1) =>
                      it.value \in ChildValues(it.alts[i].var, it.alts[i].pos)

\* an Alt with a callback and a mutator gave the value of the child the
\* mutator selected, which is not the child of the callback
C10_Witness ==
    /\ it.status = "active"
    /\ it.yielded = 1
    /\ Len(it.alts) = 1
    /\ it.alts[1].hasMutator
    /\ it.alts[1].hasCallback
    /\ it.alts[1].pos = it.alts[1].generated.value + 1
    /\ it.alts[1].pos # PyIndex(it.alts[1].callback,
                                Len(Var[it.alts[1].var].children))

\* C11: generate() of the mutator of an Alt raises RecursionException
\* only when its depth counter exceeds maxDepth
C11_DepthLimit ==
    (it.status = "raised" /\ it.raised = "RecursionException") =>
       mappingFieldsMutators[IterDomain].currentDepth
          > mappingFieldsMutators[IterDomain].maxDepth

\* the bits of a flow: the values of its pairs, one after the other
RECURSIVE FlowBits(_)
FlowBits(flow) ==
    IF flow = <<>> THEN <<>>
    ELSE ConcatAll(Head(flow).values) \o FlowBits(Tail(flow))

\* the values of pair k of a flow are a result of the parse, by the symbol
\* of the pair, of what the pairs before it left of the parsed bits, the
\* parse being allowed to leave data
SegmentIsParse(flow, k) ==
    \E j \in 1..Len(parseBitarray(
                       Suffix(last.bits, Len(FlowBits(SubSeq(flow, 1, k - 1)))),
                       Symbols[flow[k].symbol], FALSE,
                       last.memBefore).paths) :
       parseBitarray(Suffix(last.bits, Len(FlowBits(SubSeq(flow, 1, k - 1)))),
                     Symbols[flow[k].symbol], FALSE,
                     last.memBefore).paths[j].slices = flow[k].values

\* C12: every flow yielded by _parseFlow_internal is a complete contiguous
\* segmentation: its values put end to end are the whole input, and each
\* pair is a result of parsing the input remaining at its place with its
\* symbol, without the obligation to consume everything
C12_FlowSegmentation ==
    last.kind = "flow" =>
       \A i \in 1..Len(last.flows) :
          /\ FlowBits(last.flows[i]) = last.bits
          /\ \A k \in 1..Len(last.flows[i]) :
                /\ last.flows[i][k].symbol \in SeqToSet(last.symbols)
                /\ SegmentIsParse(last.flows[i], k)

\* a flow of two messages among several flows of the same data
C12_Witness ==
    /\ last.kind = "flow"
    /\ Len(last.flows) >= 2
    /\ \E i \in 1..Len(last.flows) : Len(last.flows[i]) >= 2

\* the data can be cut into consecutive messages of the symbols, whatever
\* the order in which the cuts are tried
RECURSIVE Segmentable(_, _, _)
Segmentable(data, symbols, mem) ==
    /\ data # <<>>
    /\ \E s \in SeqToSet(symbols) :
          \E q \in SeqToSet(parseBitarray(data, Symbols[s], FALSE,
                                          mem).paths) :
             \/ Len(ConcatAll(q.slices)) = Len(data)
             \/ Segmentable(Suffix(data, Len(ConcatAll(q.slices))),
                            symbols, mem)

\* result j of symbol i takes all the data or leaves data that can be cut
Completes(data, symbols, mem, i, j) ==
    \E q \in {parseBitarray(data, Symbols[symbols[i]], FALSE,
                            mem).paths[j]} :
       \/ Len(ConcatAll(q.slices)) = Len(data)
       \/ Segmentable(Suffix(data, Len(ConcatAll(q.slices))), symbols,
                      mem)

\* the candidates (symbol i, result j), in the order of the enumeration
Candidates(data, symbols, mem) ==
    UNION {{<<i, j>> :
               j \in 1..Len(parseBitarray(data, Symbols[symbols[i]], FALSE,
                                          mem).paths)} :
              i \in 1..Len(symbols)}

\* the flow starts with the first candidate that completes, and goes on
\* in the same way on the data this candidate leaves
RECURSIVE IsFirstSegmentation(_, _, _, _)
IsFirstSegmentation(flow, data, symbols, mem) ==
    /\ flow # <<>>
    /\ \E c \in Candidates(data, symbols, mem) :
          /\ Completes(data, symbols, mem, c[1], c[2])
          /\ \A b \in Candidates(data, symbols, mem) :
                (b[1] < c[1] \/ (b[1] = c[1] /\ b[2] < c[2]))
                   => ~Completes(data, symbols, mem, b[1], b[2])
          /\ flow[1].symbol = symbols[c[1]]
          /\ flow[1].values
                = parseBitarray(data, Symbols[symbols[c[1]]], FALSE,
                                mem).paths[c[2]].slices
          /\ IF Len(ConcatAll(flow[1].values)) = Len(data)
             THEN Len(flow) = 1
             ELSE IsFirstSegmentation(
                      Tail(flow),
                      Suffix(data, Len(ConcatAll(flow[1].values))),
                      symbols, mem)

AsLastField(v) == parseBitarray(last.bits, <<v>>, TRUE, last.memBefore)

\* C14: the carnivorous flag of the last field goes unchanged through an
\* Alt: the Alt that is the last field parses each child as carnivorous,
\* so each result the child gives as the last field is a result of the Alt
C14_CarnivorousPropagation ==
    (last.kind = "parsed" /\ Len(Symbols[last.symbol]) = 1
     /\ Var[Symbols[last.symbol][1]].kind = "Alt") =>
       \A k \in 1..Len(Var[Symbols[last.symbol][1]].children) :
          \A j \in 1..Len(AsLastField(
                             Var[Symbols[last.symbol][1]].children[k]).paths) :
             \E i \in 1..Len(last.paths) :
                last.paths[i].slices
                   = AsLastField(Var[Symbols[last.symbol][1]].children[k])
                        .paths[j].slices

\* a leaf of scope NONE whose type has a range of lengths was parsed alone
\* by comparison with its domain
RangedLeafParsed ==
    /\ last.kind = "leafParsed"
    /\ Var[last.var].scope = "NONE"
    /\ TypeMinBits(Var[last.var].dataType)
          < TypeMaxBits(Var[last.var].dataType)
    /\ Len(last.trace) = 1
    /\ last.trace[1].op = "domainCMP"

\* the length of the data path j gives to the parsed leaf
YieldedLength(j) == Len(last.paths[j].data[last.var])

RECURSIVE LeavesUnder(_)
LeavesUnder(v) ==
    IF Var[v].kind = "Alt"
    THEN UNION {LeavesUnder(Var[v].children[k]) :
                   k \in 1..Len(Var[v].children)}
    ELSE {v}

RECURSIVE Reverse(_)
Reverse(q) == IF q = <<>> THEN <<>> ELSE Append(Reverse(Tail(q)), Head(q))

\* a message was parsed against a symbol made of one Alt
AltAlone ==
    /\ last.kind = "parsed"
    /\ Len(Symbols[last.symbol]) = 1
    /\ Var[Symbols[last.symbol][1]].kind = "Alt"

LastCall == calls[Len(calls)]

\* a mutator as it was configured, its counters aside
Configured(m) == [m EXCEPT !.currentCounter = 0, !.currentDepth = 0]

\* the variables under a node
RECURSIVE Descendants(_)
Descendants(v) ==
    IF Var[v].kind = "Alt"
    THEN UNION {{Var[v].children[k]} \cup Descendants(Var[v].children[k]) :
                   k \in 1..Len(Var[v].children)}
    ELSE {}

\* the last call is set(symbol) and the domain of the symbol is a node
NodeSet ==
    /\ calls # <<>>
    /\ LastCall.op = "set"
    /\ Var[Symbols[LastCall.key][1]].kind = "Alt"

\* the mutator of v is the default one of its type, with the mode and the
\* seed of the mutator of k
BuiltFrom(v, k) ==
    /\ mappingFieldsMutators[v].present
    /\ mappingFieldsMutators[v].mode = mappingFieldsMutators[k].mode
    /\ mappingFieldsMutators[v].seed = mappingFieldsMutators[k].seed
    /\ mappingFieldsMutators[v].counterMax
          = mappingTypesMutators[TypeOf(v)].counterMax
    /\ mappingFieldsMutators[v].interval
          = mappingTypesMutators[TypeOf(v)].interval
    /\ mappingFieldsMutators[v].mutateChild
          = mappingTypesMutators[TypeOf(v)].mutateChild

\* C17 as stated: after set on a node whose mutator has mutateChild, every
\* descendant has a mutator, its own if it had one, else one with the mode
\* and the seed of the node; without mutateChild no descendant gains one
C17_EveryDescendant ==
    NodeSet =>
       \A v \in Descendants(Symbols[LastCall.key][1]) :
          IF LastCall.before[v].present
          THEN Configured(mappingFieldsMutators[v])
                  = Configured(LastCall.before[v])
          ELSE IF mappingFieldsMutators[Symbols[LastCall.key][1]].mutateChild
          THEN BuiltFrom(v, Symbols[LastCall.key][1])
          ELSE ~mappingFieldsMutators[v].present

\* C17: after set, a variable outside the keys that had a mutator keeps
\* it; one that had none has one exactly if a node it is a child of has a
\* mutator with mutateChild, and it is then the default mutator of its
\* type with the mode and the seed of this node: the propagation goes down
\* from each node of the mapping, through the children that had no mutator
\* and not through a child whose own mutator has no mutateChild
C17_Propagation ==
    (calls # <<>> /\ LastCall.op = "set") =>
       \A v \in VarIds \ SeqToSet(Symbols[LastCall.key]) :
          IF LastCall.before[v].present
          THEN Configured(mappingFieldsMutators[v])
                  = Configured(LastCall.before[v])
          ELSE IF \E k \in Parents(v) :
                     /\ mappingFieldsMutators[k].present
                     /\ mappingFieldsMutators[k].mutateChild
          THEN \E k \in Parents(v) :
                  /\ mappingFieldsMutators[k].present
                  /\ mappingFieldsMutators[k].mutateChild
                  /\ BuiltFrom(v, k)
          ELSE ~mappingFieldsMutators[v].present

\* set on a node with mutateChild, mode and seed given: its child node
\* had a mutator without mutateChild and keeps it, the other child
\* receives a mutator with the mode and the seed of the node, and the
\* leaves under the child node receive none
C17_Witness ==
    /\ NodeSet
    /\ LastCall.key = "S_altN"
    /\ mappingFieldsMutators["altN"].mutateChild
    /\ mappingFieldsMutators["altN"].seed = OtherSeed
    /\ LastCall.before["altABC"].present
    /\ mappingFieldsMutators["altABC"].seed = SEED_DEFAULT
    /\ ~mappingFieldsMutators["altABC"].mutateChild
    /\ mappingFieldsMutators["b3"].present
    /\ mappingFieldsMutators["b3"].seed = OtherSeed
    /\ mappingFieldsMutators["b3"].mode = "MUTATE"
    /\ ~mappingFieldsMutators["cA"].present

\* the mappings are as the last call found them, the counters aside
MappingsAsBefore(keys) ==
    /\ \A v \in VarIds \ keys :
          Configured(mappingFieldsMutators[v]) = Configured(LastCall.before[v])
    /\ mappingTypesMutators = LastCall.typesBefore

\* the legitimate values of the symbols that are specialized
LegitimateValues(s) ==
    UNION {dataTypeGenerate(Var[v].dataType) :
              v \in LeavesUnder(Symbols[s][1])}

\* the iterator gave only legitimate values of its symbol, and raised
\* nothing
Legitimate ==
    /\ it.raised = ""
    /\ ~it.fuzzed
    /\ it.yielded > 0 => it.value \in LegitimateValues(it.symbol)

\* C18: unset(key) removes the mutators of the variables key designates
\* and of no other, and leaves the parameters of the types as they were;
\* these variables are then specialized legitimately and the others
\* remain fuzzed; a key that is no symbol, field or variable raises and
\* changes nothing
C18_Unset ==
    (calls # <<>> /\ LastCall.op = "unset") =>
       IF LastCall.key \notin SymbolIds \cup VarIds
       THEN LastCall.raised = "Exception" /\ MappingsAsBefore({})
       ELSE /\ LastCall.raised = ""
            /\ \A v \in Fuzz_unsetKeys(LastCall.key) :
                  ~mappingFieldsMutators[v].present
            /\ MappingsAsBefore(Fuzz_unsetKeys(LastCall.key))
            /\ it.status # "none" =>
                  IF Symbols[it.symbol][1] \in Fuzz_unsetKeys(LastCall.key)
                  THEN Legitimate
                  ELSE it.fuzzed
                          = Fuzzing(LastCall.before, Symbols[it.symbol][1])

\* the calls since Fuzz() are set(type, **opts) then set(symbol)
TypeThenSet ==
    /\ Len(calls) = 2
    /\ calls[1].op = "setType"
    /\ calls[2].op = "set"

\* the mutators the last call of set built for a variable of the type
InstantiatedFor(t) ==
    {v \in VarIds : /\ TypeOf(v) = t
                    /\ mappingFieldsMutators[v].present
                    /\ ~LastCall.before[v].present}

\* the mutator has the parameters passed to set(type): counterMax always
\* is, interval if it is given
ConstructedWith(m, opts) ==
    /\ m.counterMax = opts.counterMax
    /\ "interval" \in opts.given => m.interval = opts.interval

\* C19: after set(T, **opts) then set(symbol), every mutator the second
\* call built for a variable of type T has the parameters opts, and a
\* fuzzed variable of type T emits its values within the interval of opts
C19_TypeDefaults ==
    TypeThenSet =>
       /\ \A v \in InstantiatedFor(calls[1].key) :
             ConstructedWith(mappingFieldsMutators[v], calls[1].kwargs)
       /\ ( /\ it.status = "active"
            /\ it.fuzzed
            /\ it.yielded > 0
            /\ TypeOf(Symbols[it.symbol][1]) = calls[1].key
            /\ "interval" \in calls[1].kwargs.given )
          => it.value \in {BitArray_encode(<<x>>) :
                              x \in calls[1].kwargs.interval[1]
                                      ..calls[1].kwargs.interval[2]}

\* next(it) is about to specialize a symbol whose domain is a fuzzed Alt
SpecializingFuzzedAlt ==
    /\ it.status = "active"
    /\ it.index = 0
    /\ Var[Symbols[it.symbol][1]].kind = "Alt"
    /\ Fuzzing(mappingFieldsMutators, Symbols[it.symbol][1])

\* what two runs see of next(it): the bytes yielded, or the exception
Observed(i) == <<i.status, i.raised, i.value>>

\* C20: two runs with the same seed and the same calls yield the same
\* bytes: once the draw of the generator the seed governs is fixed, the
\* specialization of the symbol has one outcome only
C20_Determinism ==
    SpecializingFuzzedAlt =>
       \A gen \in AltGenerate(Symbols[it.symbol][1]) :
       \A o1, o2 \in specializeSymbol(it.symbol, memory,
                        FuzzView(mappingFieldsMutators,
                                 Symbols[it.symbol][1], gen)) :
          Observed(IteratorStep(it, o1)) = Observed(IteratorStep(it, o2))

\* next(it) gave a value for a symbol whose field is a leaf with a mutator
\* in mode MUTATE
MutatedLeaf ==
    /\ it.status \in {"active", "ended"}
    /\ it.yielded > 0
    /\ Mutating(mappingFieldsMutators, Symbols[it.symbol][1])

ExpectedCanParse(dataType, bits) ==
    IF dataType.hasValue THEN bits = Integer_value(dataType)
    ELSE /\ Len(bits) = dataType.unitSize
         /\ BitsToInteger(bits, dataType.unitSize, dataType.endianness,
                          dataType.sign)
               \in dataType.size[1]..dataType.size[2]

\* C22: canParse of an Integer without value is False for a bit sequence
\* that has not the width of the storage, and for one that has it True
\* exactly when the integer lies in the interval; with a value it is True
\* exactly when the bits are the value
C22_CanParse ==
    last.kind = "canParse" =>
       last.result = ExpectedCanParse(last.dataType, last.bits)

\* the integers a storage of unitSize bits holds
InStorageRange(v, unitSize, sign) ==
    IF sign = "signed"
    THEN -Pow2(unitSize - 1) <= v /\ v <= Pow2(unitSize - 1) - 1
    ELSE 0 <= v /\ v <= Pow2(unitSize) - 1

\* C23: Integer.decode of an integer within the storage range gives
\* unitSize bits of raw bytes, and Integer.encode of them with the same
\* parameters gives the integer back; outside the range decode raises
C23_RoundTrip ==
    /\ last.kind = "decoded" =>
          IF InStorageRange(last.value, last.unitSize, last.sign)
          THEN /\ last.raw # StructError
               /\ Len(last.raw) * ByteBits = last.unitSize
          ELSE last.raw = StructError
    /\ last.kind = "encoded" => last.result = last.value

\* a negative integer went through two bytes in little endian and came
\* back
C23_Witness ==
    /\ last.kind = "encoded"
    /\ last.value = -130
    /\ last.unitSize = 16
    /\ last.endianness = "little"
    /\ last.raw = <<126, 255>>
    /\ last.result = -130

\* C24: parseFlow terminates on every message and list of symbols, a
\* symbol that matches the empty bit string included: the recursion is
\* made on less data each time and never exhausts the stack
C24_FlowTerminates ==
    last.kind = "flow" => last.raised # "RecursionError"

\* the Alt variables of the symbol of the last operation, nested ones
\* included, that path q went through
AltsTaken(q) == {v \in VarIds : Var[v].kind = "Alt" /\ q.choice[v] # 0}

\* the paths of the last parse or specialization of a symbol
SymbolPaths ==
    IF last.kind \in {"parsed", "abstracted", "specialized"}
    THEN last.paths ELSE <<>>

\* C25: on every path an Alt yields when it parses and returns when it
\* specializes, the bits recorded for the Alt are the bits recorded on
\* this path for the child that was parsed or specialized; every Alt
\* that is a field of the symbol has such a child on every path
C25_AltResult ==
    \A i \in 1..Len(SymbolPaths) :
       /\ \A k \in 1..Len(Symbols[last.symbol]) :
             Var[Symbols[last.symbol][k]].kind = "Alt" =>
                Symbols[last.symbol][k] \in AltsTaken(SymbolPaths[i])
       /\ \A v \in AltsTaken(SymbolPaths[i]) :
             /\ SymbolPaths[i].choice[v] \in 1..Len(Var[v].children)
             /\ v \in SymbolPaths[i].results
             /\ Var[v].children[SymbolPaths[i].choice[v]]
                   \in SymbolPaths[i].results
             /\ SymbolPaths[i].data[v]
                   = SymbolPaths[i].data[
                         Var[v].children[SymbolPaths[i].choice[v]]]

\* the bytes specialized by an Alt nested in an Alt are parsed back
\* through the second child of the inner Alt: both Alts hold its bits
C25_Witness ==
    /\ last.kind = "abstracted"
    /\ last.symbol = "S_altN"
    /\ \E i \in 1..Len(last.paths) :
          /\ last.paths[i].choice["altN"] = 1
          /\ last.paths[i].choice["altABC"] = 2
          /\ last.paths[i].data["altN"] = last.paths[i].data["cB"]
          /\ last.paths[i].data["cB"] = BitArray_encode(<<66>>)

\* a call of set on a symbol, a field or a variable returned
SetReturned ==
    /\ calls # <<>>
    /\ calls[Len(calls)].op = "set"
    /\ calls[Len(calls)].raised = ""

OwnInterval(kwargs) ==
    IF "interval" \in kwargs.given THEN kwargs.interval
    ELSE DEFAULT_INTERVAL

\* C27: a call of set on a symbol, a field or a variable changes the
\* mutators of the variables of this key only: the default parameters of
\* the types are as they were before the call, the mutators the other
\* variables held are unchanged, and the mutators built for the key take
\* the options of this call and none of a call before
C27_NoLeak ==
    SetReturned =>
       /\ mappingTypesMutators = calls[Len(calls)].typesBefore
       /\ \A v \in VarIds \ KeyVariables(calls[Len(calls)].key) :
             calls[Len(calls)].before[v].present =>
                mappingFieldsMutators[v] = calls[Len(calls)].before[v]
       /\ \A v \in VarIds \cap KeyVariables(calls[Len(calls)].key) :
             /\ mappingFieldsMutators[v].present
             /\ ~IsNode(v) =>
                   mappingFieldsMutators[v].interval
                      = OwnInterval(calls[Len(calls)].kwargs)

\* C28: every index generate() of the mutator of an Alt returns is the
\* index of a child, 0 <= index < len(children), and Alt.specialize under
\* fuzzing never raises ValueError
C28_IndexValid ==
    /\ it.raised # "ValueError"
    /\ \A i \in 1..Len(it.alts) :
          (it.alts[i].hasMutator /\ it.alts[i].generated.raised = "") =>
             /\ 0 <= it.alts[i].generated.value
             /\ it.alts[i].generated.value
                   < Len(Var[it.alts[i].var].children)

\* the step is a next() that calls generate() on the mutator of the Alt
\* the iterator specializes
GenerateCalled ==
    /\ it.status = "active"
    /\ it.index = 0
    /\ Var[Symbols[it.symbol][1]].kind = "Alt"
    /\ Fuzzing(mappingFieldsMutators, Symbols[it.symbol][1])
    /\ it'.status # "none"
    /\ it' # it

\* DomainMutator.generate raises MaxFuzzingException in this call
CounterExhausted(v) ==
    \/ LimitReached(mappingFieldsMutators[v].currentCounter,
                    mappingFieldsMutators[v].counterMax)
    \/ LimitReached(globalCounter, globalCounterMax)

\* the Alts that hold the same mutator before and after the step
SameMutator ==
    {v \in VarIds : /\ Var[v].kind = "Alt"
                    /\ mappingFieldsMutators[v].present
                    /\ mappingFieldsMutators'[v].present}

\* C29 as stated: every call of generate() on the mutator of an Alt adds
\* one to currentDepth, so that currentDepth is the number of calls made
\* since the mutator was built
C29_EveryCall ==
    [][GenerateCalled =>
          mappingFieldsMutators'[Symbols[it.symbol][1]].currentDepth
             = mappingFieldsMutators[Symbols[it.symbol][1]].currentDepth + 1
      ]_vars

\* C29: currentDepth of the mutator of an Alt is cumulative: a call of
\* generate() adds one to it, unless the counters stop the call with
\* MaxFuzzingException before the depth is counted; no other step changes
\* it, the end of a specialization and the start of the next one
\* included; it is never decremented or reset, and it is the number of
\* calls the counters let through, whether or not the Alt is recursive
C29_Cumulative ==
    [][/\ \A v \in SameMutator :
             /\ mappingFieldsMutators'[v].currentDepth
                   >= mappingFieldsMutators[v].currentDepth
             /\ ~(GenerateCalled /\ v = Symbols[it.symbol][1]) =>
                   mappingFieldsMutators'[v].currentDepth
                      = mappingFieldsMutators[v].currentDepth
             /\ mappingFieldsMutators'[v].currentDepth
                   = mappingFieldsMutators'[v].currentCounter
       /\ GenerateCalled =>
             mappingFieldsMutators'[Symbols[it.symbol][1]].currentDepth
                = IF CounterExhausted(Symbols[it.symbol][1])
                  THEN mappingFieldsMutators[Symbols[it.symbol][1]]
                          .currentDepth
                  ELSE mappingFieldsMutators[Symbols[it.symbol][1]]
                          .currentDepth + 1
      ]_vars

\* two specializations of an Alt that is not recursive each counted one
\* in the depth, and the third one was stopped by the counter of the
\* mutator at its first next(): the depth is still 2
C29_Witness ==
    /\ it.status = "ended"
    /\ it.index = 0
    /\ it.symbol = "S_alt"
    /\ mappingFieldsMutators["altABC"].present
    /\ mappingFieldsMutators["altABC"].counterMax = 2
    /\ mappingFieldsMutators["altABC"].currentCounter = 2
    /\ mappingFieldsMutators["altABC"].currentDepth = 2
    /\ mappingFieldsMutators["altABC"].maxDepth = DEFAULT_MAX_DEPTH

\* C30: Fuzz.set terminates on every graph of variables, the ones where
\* a node is reachable from its own children included: the propagation
\* visits each descendant a bounded number of times and no call of set
\* ends with the stack exhausted
C30_SetTerminates ==
    \A i \in 1..Len(calls) :
       calls[i].op = "set" => calls[i].raised # "RecursionError"

====
